---- MODULE Spec2Model ----
(***************************************************************************)
(* Model of the Epic Report Generator.                                     *)
(*                                                                         *)
(* Part 1: the metrics engine (core/metrics.py).  An Epic's children are   *)
(* built up one JiraIssue at a time, then calculate_metrics is applied     *)
(* and its EpicMetrics result is stored in m.  Specification: Spec.        *)
(*                                                                         *)
(* Part 2: a report run (ui/preview_panel.py, core/pdf_generator.py,       *)
(* core/chart_generator.py).  The worker fetches the configured Epics one  *)
(* key at a time, the panel then builds the document.  Specification:      *)
(* SpecReport.                                                             *)
(*                                                                         *)
(* Part 3: the Jira client (core/jira_client.py): fetch_epic, its child    *)
(* pagination and _search_with_retry, one search call at a time, the      *)
(* server's answer being an input.  Specification: SpecJira.               *)
(*                                                                         *)
(* Part 4: the timestamps of a raw issue (JiraClient._parse_dt), applied   *)
(* to the created and resolutiondate fields as _fetch_children does.       *)
(* Specification: SpecParse.                                               *)
(*                                                                         *)
(* Part 5: the configuration store (services/config_manager.py): the      *)
(* dict in memory and the JSON file it is saved to.  Specification:        *)
(* SpecConfig.                                                             *)
(*                                                                         *)
(* Part 6: the credentials (services/auth_manager.py): the cached access  *)
(* token, the keyring entries, login, token refresh and logout, with the  *)
(* configuration store of part 5.  Specification: SpecAuth.               *)
(*                                                                         *)
(* Part 7: the OAuth callback server (services/oauth_server.py): do_GET   *)
(* on one request, and wait_for_callback with its serving thread and its  *)
(* timeout.  Specification: SpecOAuth.                                    *)
(*                                                                         *)
(* Part 8: the weekend bands of the trend chart                            *)
(* (core/chart_generator.py, _draw_weekend_bands), one date of the loop   *)
(* at a time.  Specification: SpecBands.                                  *)
(*                                                                         *)
(* Part 9: the pages of children (core/jira_client.py, _fetch_children)   *)
(* read from a source that holds a given number of child issues, one page *)
(* request at a time.  Specification: SpecPages.                          *)
(*                                                                         *)
(* Part 10: the preview panel over several runs (ui/preview_panel.py,     *)
(* ui/report_panel.py): generate may be called while a run is in          *)
(* progress, every worker is a thread of its own, the finished signals    *)
(* are handled by the main loop in the order of their emission; export    *)
(* and resize read the stored PDF.  A PDF is named by the run that built  *)
(* it.  Specification: SpecPreview.                                       *)
(*                                                                         *)
(* Part 11: the Jira session across login and logout (core/jira_client.py, *)
(* ui/login_panel.py, ui/main_window.py, ui/settings_panel.py), over the   *)
(* credential store of part 6.  Specification: SpecSession.                *)
(*                                                                         *)
(* Each part has its own variables; a specification leaves the variables   *)
(* of the other parts at their idle values.                                *)
(*                                                                         *)
(* Conventions                                                             *)
(*   - Optional[T] is a sequence: None is <<>>, a value v is <<v>>.        *)
(*   - A datetime is [t |-> seconds since the epoch (the instant),         *)
(*     off |-> its UTC offset in seconds].  Ordering and subtraction of    *)
(*     aware datetimes use the instant; .date() uses the wall clock of     *)
(*     the datetime's own offset.                                          *)
(*   - A date is a day number (days since the epoch).                      *)
(*   - A float is an exact rational [num, den] in lowest terms, den > 0.   *)
(*     Story points are integers.                                          *)
(***************************************************************************)
EXTENDS Integers, Sequences, FiniteSets, TLC

VARIABLES
    children,   \* EpicData.children: the sequence of JiraIssue records
    clock,      \* the host clock: [now |-> instant, tz |-> local UTC offset]
    m,          \* the EpicMetrics returned by calculate_metrics
    pc          \* "input" while the Epic is built, "done" once m is computed

\* A report run.
VARIABLES
    epic_keys,       \* ReportConfig.epic_keys of the run in progress
    processed,       \* number of keys the worker's loop has gone through
    report,          \* the worker's ReportData: [epics, metrics, errors]
    wpc,             \* "idle", "run", "emitted" (finished signal sent),
                     \* "crashed" (run left by an exception, nothing sent)
    _pdf_bytes,      \* PreviewPanel._pdf_bytes: None or the document
    export_enabled,  \* whether the Export button is enabled
    progress_shown,  \* whether the progress bar is visible
    status_label,    \* the text of the status label
    dialogs          \* the message boxes shown since Generate was pressed

\* A call of JiraClient.fetch_epic.
VARIABLES
    jira_connected,  \* JiraClient._jira is not None
    fpc,             \* where fetch_epic is: "idle", "lookup", "children",
                     \* "returned", "raised"
    search,          \* the current (or last) call of _search_with_retry:
                     \* [attempt, calls, sleeps, answers, outcome, n, exc]
    start,           \* _fetch_children: start
    fetched,         \* _fetch_children: len(children)
    fetch_result,    \* what fetch_epic returned: None or the Epic
    fetch_exc        \* the exception fetch_epic raised, if it raised

\* The timestamps of one raw issue, parsed by JiraClient._parse_dt.
VARIABLES
    raw_fields,      \* the raw issue's fields: [created, resolutiondate]
    parsed,          \* the JiraIssue fields parsed so far: [created, resolved]
    ppc,             \* "idle", "created", "resolved", "done", "raised"
    parse_exc        \* the exception _parse_dt raised, if it raised

\* The configuration store (ConfigManager).
VARIABLES
    config_data,     \* ConfigManager._data: the dict in memory
    config_file,     \* the config file: [state |-> "absent", "json" or
                     \* "corrupt", content |-> the dict it holds]
    config_call      \* the call made last: [op, values, saved]

\* The credentials (AuthManager).
VARIABLES
    _access_token,   \* AuthManager._access_token: None or the cached token
    _token_expiry,   \* AuthManager._token_expiry
    keyring,         \* the OS keyring entries of the service:
                     \* [tokens |-> None or the stored payload,
                     \*  api_token |-> None or the API token]
    time,            \* time.time()
    auth_call        \* the call made last: [op, result, read_keyring,
                     \* posted, deleted]

\* The OAuth callback server (wait_for_callback).
VARIABLES
    request,         \* None, or the GET request the server has received
    http_status,     \* the status of the response sent, 0 before
    server_result,   \* OAuthCallbackServer.result: None or the result dict
    serve_pc,        \* the serving thread: "none", "waiting", "done"
    wait_pc,         \* wait_for_callback: "idle", "joining", "woken",
                     \* "shutdown", "returned"
    elapsed,         \* the 300 s of server.timeout have passed
    wait_return      \* what wait_for_callback returned

\* The weekend bands of a chart (_draw_weekend_bands).
VARIABLES
    band_dates,      \* the dates argument
    band_i,          \* how many dates the for loop has visited
    in_weekend,      \* the local in_weekend
    band_start,      \* the local start: None or a date
    bands,           \* the calls of ax.axvspan made: <<start, end>> each
    band_pc          \* "idle", "loop", "done"

\* The pages of children (JiraClient._fetch_children).
VARIABLES
    source_n,        \* how many child issues the source holds
    fc_start,        \* the local start
    fc_children,     \* the local children: the issues fetched, by number
    fc_offsets,      \* the start_at of every page request made
    fc_pc            \* "idle", "loop", "returned", "raised"

\* The preview panel over several runs (PreviewPanel).
VARIABLES
    app,             \* the process: "running" or "aborted"
    runs,            \* the runs started, in order: [st, epics] each, st
                     \* "running", "crashed", "emitted" or "handled"
    pv_queue,        \* the runs whose finished signal awaits the main loop
    _worker,         \* PreviewPanel._worker: None or the run of the worker
    pv_pdf,          \* PreviewPanel._pdf_bytes: None or the run it is of
    pv_export,       \* the Export button is enabled
    pv_progress,     \* the progress bar is shown
    pv_status,       \* the status text and the run it speaks of
    pv_result,       \* the run whose finished signal was handled last
    pv_preview,      \* None, or the run whose pages the preview shows
    pv_written       \* None, or the file written last: [pdf, latest]

\* The Jira session of the application (JiraClient, MainWindow).
VARIABLES
    jira_session,    \* JiraClient._jira: None or the kind of JIRA object
    _logged_in       \* MainWindow._logged_in

metricsVars == <<children, m, pc>>
sessionVars == <<jira_session, _logged_in>>
previewVars == <<app, runs, pv_queue, _worker, pv_pdf, pv_export,
                 pv_progress, pv_status, pv_result, pv_preview, pv_written>>
pageVars == <<source_n, fc_start, fc_children, fc_offsets, fc_pc>>
bandVars == <<band_dates, band_i, in_weekend, band_start, bands, band_pc>>
oauthVars == <<request, http_status, server_result, serve_pc, wait_pc,
               elapsed, wait_return>>
extVars == <<oauthVars, bandVars, pageVars, previewVars, sessionVars>>
authVars == <<_access_token, _token_expiry, keyring, time, auth_call>>
configVars == <<config_data, config_file, config_call>>
parseVars == <<raw_fields, parsed, ppc, parse_exc>>
jiraVars == <<jira_connected, fpc, search, start, fetched, fetch_result,
              fetch_exc>>
reportVars == <<epic_keys, processed, report, wpc, _pdf_bytes,
                export_enabled, progress_shown, status_label, dialogs>>

vars == <<metricsVars, clock, reportVars, jiraVars, parseVars, configVars,
          authVars, extVars>>

\* ---------------------------------------------------------------- bounds

\* Largest number of children of an Epic.
MaxChildren == 2

\* Largest number of children of an Epic of the scope-change family, where
\* a child without a creation timestamp joins two that have one.
MaxScopeChildren == 3

\* ------------------------------------------------------- basic data types

None == <<>>
Some(x) == <<x>>
IsNone(o) == o = <<>>
Val(o) == o[1]

SecondsPerDay == 86400

RECURSIVE Gcd(_, _)
Gcd(a, b) == IF b = 0 THEN a ELSE Gcd(b, a % b)

Abs(x) == IF x < 0 THEN -x ELSE x

\* The rational n/d (d # 0) in lowest terms with a positive denominator.
Rat(n, d) ==
    LET g == Gcd(Abs(n), Abs(d))
        s == IF d < 0 THEN -1 ELSE 1
    IN  [num |-> (s * n) \div g, den |-> (s * d) \div g]

RatOfInt(n) == [num |-> n, den |-> 1]
RatLt(a, b) == a.num * b.den < b.num * a.den
RatMul(a, b) == Rat(a.num * b.num, a.den * b.den)
RatMax(a, b) == IF RatLt(a, b) THEN b ELSE a
RatMin(a, b) == IF RatLt(b, a) THEN b ELSE a

\* sum() of a sequence of integers, left to right.
RECURSIVE Sum(_)
Sum(s) == IF s = <<>> THEN 0 ELSE Head(s) + Sum(Tail(s))

\* datetime.date(): the calendar day on the datetime's own wall clock.
DateOf(dt) == (dt.t + dt.off) \div SecondsPerDay

\* bool(c.story_points): neither None nor 0.
Truthy(sp) == ~IsNone(sp) /\ Val(sp) # 0

\* c.story_points or 0
SpOrZero(c) == IF Truthy(c.story_points) THEN Val(c.story_points) ELSE 0

\* sum(c.story_points ... for c in s), over children already selected.
SumPoints(s) == Sum([i \in 1..Len(s) |-> SpOrZero(s[i])])

\* "blocked" in c.status.lower(), on the status texts of the model.
ContainsBlocked(status) == status \in {"Blocked", "blocked: vendor"}

\* Variant of EpicMetrics: avg_cycle_time_days defaults to 0.0, not None.
EpicMetrics_ZeroCycleTime ==
    [ total_issues |-> 0, completed_issues |-> 0, open_issues |-> 0,
      unestimated_issues |-> 0, total_sp |-> 0, completed_sp |-> 0,
      remaining_sp |-> 0, progress |-> RatOfInt(0),
      avg_cycle_time_days |-> Some(RatOfInt(0)), velocity_sp_per_week |-> None,
      scope_change_pct |-> None, blocked_issues |-> 0,
      forecast_date |-> None,
      dates |-> <<>>, total_sp_over_time |-> <<>>,
      completed_sp_over_time |-> <<>>, cumulative_issues |-> <<>>,
      cumulative_unestimated |-> <<>> ]

\* EpicMetrics(): the dataclass defaults.
EpicMetrics ==
    [ total_issues |-> 0, completed_issues |-> 0, open_issues |-> 0,
      unestimated_issues |-> 0, total_sp |-> 0, completed_sp |-> 0,
      remaining_sp |-> 0, progress |-> RatOfInt(0),
      avg_cycle_time_days |-> None, velocity_sp_per_week |-> None,
      scope_change_pct |-> None, blocked_issues |-> 0,
      forecast_date |-> None,
      dates |-> <<>>, total_sp_over_time |-> <<>>,
      completed_sp_over_time |-> <<>>, cumulative_issues |-> <<>>,
      cumulative_unestimated |-> <<>> ]

\* ------------------------------------------------------- the host clock

\* datetime.now().astimezone(): the current instant.
Now == clock.now

\* date.today(): the current day on the host's wall clock.
Today == (clock.now + clock.tz) \div SecondsPerDay

\* datetime(day.year, day.month, day.day, 23, 59, 59).astimezone(): the
\* instant of 23:59:59 of `day` on the host's wall clock.
DayEnd(day) == day * SecondsPerDay + (SecondsPerDay - 1) - clock.tz

\* ------------------------------------------------- metrics.py: helpers

IsDone(c) == c.status_category = "Done"

Clamp(v) == RatMax(RatOfInt(0), RatMin(RatOfInt(100), v))

\* Variant of _progress: the point ratio alone, not weighted by the issue
\* ratio.
_progress_PointsOnly(completed_sp, total_sp, completed_issues, total_issues) ==
    IF total_issues = 0 THEN RatOfInt(0)
    ELSE IF total_sp = 0
         THEN Clamp(Rat(completed_issues * 100, total_issues))
         ELSE Clamp(Rat(completed_sp * 100, total_sp))

_progress(completed_sp, total_sp, completed_issues, total_issues) ==
    IF total_issues = 0 THEN RatOfInt(0)
    ELSE IF total_sp = 0
         THEN Clamp(Rat(completed_issues * 100, total_issues))
         ELSE Clamp(RatMul(RatMul(Rat(completed_sp, total_sp),
                                  Rat(completed_issues, total_issues)),
                           RatOfInt(100)))

\* Variant of CycleTimed: the status category is not looked at.
CycleTimed_AnyStatus(c) == ~IsNone(c.created) /\ ~IsNone(c.resolved)

\* A child whose duration _avg_cycle_time appends.
CycleTimed(c) == IsDone(c) /\ ~IsNone(c.created) /\ ~IsNone(c.resolved)

\* delta = c.resolved - c.created, in seconds.
Duration(c) == Val(c.resolved).t - Val(c.created).t

_avg_cycle_time(ch) ==
    LET timed == SelectSeq(ch, CycleTimed)
        durations == [i \in 1..Len(timed) |-> Duration(timed[i])]
    IN  IF durations = <<>> THEN None
        ELSE Some(Rat(Sum(durations), SecondsPerDay * Len(durations)))

\* Variant of RecentlyDone: the cutoff is not applied.
RecentlyDone_NoCutoff(c, cutoff) ==
    /\ Truthy(c.story_points)
    /\ IsDone(c)
    /\ ~IsNone(c.resolved)

\* A child whose story points _velocity sums, for the given cutoff.
RecentlyDone(c, cutoff) ==
    /\ Truthy(c.story_points)
    /\ IsDone(c)
    /\ ~IsNone(c.resolved)
    /\ Val(c.resolved).t >= cutoff

_velocity(ch, weeks) ==
    LET cutoff == Now - weeks * 7 * SecondsPerDay
        Counted(c) == RecentlyDone(c, cutoff)
        sp == SumPoints(SelectSeq(ch, Counted))
    IN  IF sp # 0 THEN Some(Rat(sp, weeks)) ELSE None

\* list.sort(key=created) on a sequence of datetimes: a stable insertion
\* sort on the instant.
RECURSIVE InsertSorted(_, _)
InsertSorted(dt, s) ==
    IF s = <<>> THEN <<dt>>
    ELSE IF dt.t < Head(s).t THEN <<dt>> \o s
         ELSE <<Head(s)>> \o InsertSorted(dt, Tail(s))

RECURSIVE SortByCreated(_)
SortByCreated(s) ==
    IF s = <<>> THEN <<>>
    ELSE InsertSorted(s[Len(s)], SortByCreated(SubSeq(s, 1, Len(s) - 1)))

HasCreated(c) == ~IsNone(c.created)
CreatedOf(c) == Val(c.created)

\* dated: the creation datetimes of the children that have one, in
\* children order.
Dated(ch) ==
    LET stamped == SelectSeq(ch, HasCreated)
    IN  [i \in 1..Len(stamped) |-> CreatedOf(stamped[i])]

ScopeWindowDays == 7

\* Variant of _scope_change: the share is taken of the dated children.
_scope_change_OfDated(ch) ==
    IF Len(ch) < 2 THEN None
    ELSE LET dated == SortByCreated(Dated(ch))
         IN  IF Len(dated) < 2 THEN None
             ELSE LET first_created == dated[1]
                      threshold == first_created.t + ScopeWindowDays * SecondsPerDay
                      Later(dt) == dt.t > threshold
                      added_later == Len(SelectSeq(dated, Later))
                  IN  Some(Rat(added_later * 100, Len(dated)))

_scope_change(ch) ==
    IF Len(ch) < 2 THEN None
    ELSE LET dated == SortByCreated(Dated(ch))
         IN  IF Len(dated) < 2 THEN None
             ELSE LET first_created == dated[1]
                      threshold == first_created.t + ScopeWindowDays * SecondsPerDay
                      Later(dt) == dt.t > threshold
                      added_later == Len(SelectSeq(dated, Later))
                  IN  Some(Rat(added_later * 100, Len(ch)))

\* Variant of WeeksToDays: the weeks are rounded up to whole weeks.
WeeksToDays_CeilWeeks(w) == 7 * ((w.num + w.den - 1) \div w.den)

\* (date + timedelta(weeks=w)) - date, in days, for a rational w >= 0: the
\* date addition uses the timedelta's whole days only.  (timedelta rounds
\* to the microsecond, so a float a hair under a whole number of days still
\* gives that number of days, as the exact rational does.)
WeeksToDays(w) == (7 * w.num) \div w.den

\* Variant of _forecast: remaining_sp is not looked at.
_forecast_AnyRemaining(remaining_sp, velocity) ==
    IF IsNone(velocity) THEN None
    ELSE IF Val(velocity).num = 0 \/ Val(velocity).num <= 0
         THEN None
         ELSE LET weeks_remaining ==
                      Rat(remaining_sp * Val(velocity).den, Val(velocity).num)
              IN  Some(Today + WeeksToDays(weeks_remaining))

_forecast(remaining_sp, velocity) ==
    IF IsNone(velocity) THEN None
    ELSE IF Val(velocity).num = 0 \/ Val(velocity).num <= 0 \/ remaining_sp <= 0
         THEN None
         ELSE LET weeks_remaining ==
                      Rat(remaining_sp * Val(velocity).den, Val(velocity).num)
              IN  Some(Today + WeeksToDays(weeks_remaining))

\* min() over datetimes: the first one with the smallest instant.
RECURSIVE MinDt(_)
MinDt(s) ==
    IF Len(s) = 1 THEN s[1]
    ELSE LET rest == MinDt(SubSeq(s, 1, Len(s) - 1))
         IN  IF s[Len(s)].t < rest.t THEN s[Len(s)] ELSE rest

\* Variant of CreatedByDay: the children created on `day`, not by `day`.
CreatedByDay_ThatDay(ch, day) ==
    LET By(c) == HasCreated(c) /\ DateOf(Val(c.created)) = day
    IN  SelectSeq(ch, By)

\* created_by_day for `day`.
CreatedByDay(ch, day) ==
    LET By(c) == HasCreated(c) /\ DateOf(Val(c.created)) <= day
    IN  SelectSeq(ch, By)

\* Variant of DoneByDay: every Done child counts, whenever it was resolved.
DoneByDay_NoDayEnd(ch, day) == SelectSeq(CreatedByDay(ch, day), IsDone)

\* done_by_day for `day`.
DoneByDay(ch, day) ==
    LET day_end == DayEnd(day)
        Done(c) == IsDone(c) /\ ~IsNone(c.resolved) /\ Val(c.resolved).t <= day_end
    IN  SelectSeq(CreatedByDay(ch, day), Done)

\* Variant of Unestimated: only a missing estimate counts, 0 does not.
Unestimated_NoneOnly(c) == IsNone(c.story_points)

Unestimated(c) == ~Truthy(c.story_points)

\* Variant of LoopDays: the loop stops before max_date.
LoopDays_BeforeMax(min_date, max_date) ==
    [i \in 1..(max_date - min_date) |-> min_date + i - 1]

\* The days the while loop visits: day = min_date; while day <= max_date:
\* dates.append(day); day += timedelta(days=1).
LoopDays(min_date, max_date) ==
    [i \in 1..(max_date - min_date + 1) |-> min_date + i - 1]

_build_time_series(mm, ch) ==
    LET dated == Dated(ch)
    IN  IF dated = <<>> THEN mm
        ELSE LET min_date == DateOf(MinDt(dated))
                 max_date == Today
             IN  IF min_date >= max_date THEN mm
                 ELSE LET dates == LoopDays(min_date, max_date)
                      IN  [mm EXCEPT
                             !.dates = dates,
                             !.total_sp_over_time =
                                 [i \in DOMAIN dates |-> SumPoints(CreatedByDay(ch, dates[i]))],
                             !.completed_sp_over_time =
                                 [i \in DOMAIN dates |-> SumPoints(DoneByDay(ch, dates[i]))],
                             !.cumulative_issues =
                                 [i \in DOMAIN dates |-> Len(CreatedByDay(ch, dates[i]))],
                             !.cumulative_unestimated =
                                 [i \in DOMAIN dates |-> Len(SelectSeq(CreatedByDay(ch, dates[i]), Unestimated))]]

VelocityWeeks == 4

Blocked(c) == ContainsBlocked(c.status) /\ ~IsDone(c)

Estimated(c) == Truthy(c.story_points)

EstimatedDone(c) == Truthy(c.story_points) /\ IsDone(c)

calculate_metrics(ch) ==
    IF ch = <<>> THEN EpicMetrics
    ELSE LET total_issues == Len(ch)
             completed_issues == Len(SelectSeq(ch, IsDone))
             total_sp == SumPoints(SelectSeq(ch, Estimated))
             completed_sp == SumPoints(SelectSeq(ch, EstimatedDone))
             remaining_sp == total_sp - completed_sp
             velocity == _velocity(ch, VelocityWeeks)
             scalars ==
                 [EpicMetrics EXCEPT
                    !.total_issues = total_issues,
                    !.completed_issues = completed_issues,
                    !.open_issues = total_issues - completed_issues,
                    !.unestimated_issues = Len(SelectSeq(ch, Unestimated)),
                    !.total_sp = total_sp,
                    !.completed_sp = completed_sp,
                    !.remaining_sp = remaining_sp,
                    !.progress = _progress(completed_sp, total_sp, completed_issues, total_issues),
                    !.avg_cycle_time_days = _avg_cycle_time(ch),
                    !.velocity_sp_per_week = velocity,
                    !.scope_change_pct = _scope_change(ch),
                    !.blocked_issues = Len(SelectSeq(ch, Blocked)),
                    !.forecast_date = _forecast(remaining_sp, velocity)]
         IN  _build_time_series(scalars, ch)


\* ------------------------------------------------------------ the inputs

\* The host clock of the run: day 40 at 18:00 UTC, on a host at UTC and on
\* a host at UTC-5 (the same instant, the same day).
NowInstant == 40 * SecondsPerDay + 18 * 3600
Clocks == { [now |-> NowInstant, tz |-> 0], [now |-> NowInstant, tz |-> -5 * 3600] }

Utc(t) == Some([t |-> t, off |-> 0])
Days(n) == n * SecondsPerDay

\* Creation and resolution timestamps, relative to NowInstant.
Old == Utc(NowInstant - Days(30))                \* the first child of the Epic
WeekAfter == Utc(NowInstant - Days(23))          \* exactly 7 days after Old
WeekAfter1 == Utc(NowInstant - Days(23) + 1)     \* 7 days and 1 second after Old
Recent == Utc(NowInstant - Days(2))
EarlierToday == Utc(NowInstant - 2 * 3600)
\* one hour ago on a Jira profile at UTC+8: already tomorrow's date there
TomorrowThere == Some([t |-> NowInstant - 3600, off |-> 8 * 3600])
Cutoff == Utc(NowInstant - Days(28))             \* exactly 4 weeks ago
BeforeCutoff == Utc(NowInstant - Days(28) - 1)   \* 4 weeks and 1 second ago
Yesterday == Utc(NowInstant - Days(1))

JiraIssue(status, status_category, story_points, created, resolved) ==
    [ status |-> status, status_category |-> status_category,
      story_points |-> story_points, created |-> created, resolved |-> resolved ]

\* Completion states: a status category with a resolution timestamp.  Jira
\* sets the resolution date when an issue is done; a Done issue without one
\* and an open issue that kept one are both tolerated.
Completion(resolutions) ==
    {<<"To Do", None>>, <<"Done", None>>} \cup
    {<<cat, res>> : cat \in {"Done"}, res \in resolutions}

\* Children that differ in estimate and completion.
PointsIssues ==
    { JiraIssue("Open", cp[1], sp, Old, cp[2]) :
        cp \in Completion({Yesterday, BeforeCutoff}),
        sp \in {None, Some(0), Some(3), Some(5), Some(-2)} }

\* Children that differ in when they were created and resolved.
CycleIssues ==
    { JiraIssue("Open", cat, Some(3), cr, res) :
        cat \in {"In Progress", "Done"},
        cr \in {None, Old},
        res \in {None, BeforeCutoff, Cutoff, Yesterday} }

\* Children added to the Epic at different times, some of them blocked.
ScopeIssues ==
    { JiraIssue(st, "To Do", Some(3), cr, None) :
        st \in {"Open", "Blocked"},
        cr \in {None, Old, WeekAfter, WeekAfter1} }
    \cup { JiraIssue("Blocked", "Done", Some(3), Old, None) }

\* Children of a young Epic: what the daily series is built from.
SeriesIssues ==
    { JiraIssue("Open", cp[1], sp, cr, cp[2]) :
        cp \in Completion({Yesterday}),
        sp \in {None, Some(3), Some(-2)},
        cr \in {None, Recent, EarlierToday, TomorrowThere} }

\* The Epics explored are those whose children all come from one family,
\* up to the family's number of children.
Families ==
    { [issues |-> PointsIssues, cap |-> MaxChildren],
      [issues |-> CycleIssues, cap |-> MaxChildren],
      [issues |-> ScopeIssues, cap |-> MaxScopeChildren],
      [issues |-> SeriesIssues, cap |-> MaxChildren] }

\* ------------------------------------------------------ the state machine

\* ReportData(config): the three lists start empty.
ReportData == [epics |-> <<>>, metrics |-> <<>>, errors |-> <<>>]

\* PreviewPanel.__init__: no document, Export disabled, progress hidden.
ReportIdle ==
    /\ epic_keys = <<>>
    /\ processed = 0
    /\ report = ReportData
    /\ wpc = "idle"
    /\ _pdf_bytes = None
    /\ export_enabled = FALSE
    /\ progress_shown = FALSE
    /\ status_label = ""
    /\ dialogs = <<>>

\* No search has been made yet.
NoSearch == [attempt |-> 0, calls |-> 0, sleeps |-> <<>>, answers |-> <<>>,
             outcome |-> "none", n |-> 0, exc |-> None]

\* JiraClient.__init__, before any fetch_epic.
JiraIdle ==
    /\ jira_connected = FALSE
    /\ fpc = "idle"
    /\ search = NoSearch
    /\ start = 0
    /\ fetched = 0
    /\ fetch_result = None
    /\ fetch_exc = None

\* config_manager._DEFAULTS
_DEFAULTS ==
    [ auth_method |-> "", jira_url |-> "", jira_email |-> "",
      client_id |-> "", client_secret |-> "", callback_port |-> 18492,
      cloud_id |-> "", site_name |-> "", theme |-> "light",
      default_title |-> "Epic Progress Report", default_author |-> "",
      default_company |-> "", last_epic_keys |-> <<>>,
      story_points_field |-> "story_points",
      epic_link_field |-> "customfield_10014" ]

NoFile == [state |-> "absent", content |-> _DEFAULTS]
NoCall == [op |-> "init", values |-> _DEFAULTS, saved |-> "none"]

\* ConfigManager.__init__ on a host without a config file.
ConfigIdle ==
    /\ config_data = _DEFAULTS
    /\ config_file = NoFile
    /\ config_call = NoCall

NoAuthCall == [op |-> "init", result |-> None, read_keyring |-> FALSE,
               posted |-> FALSE, deleted |-> <<>>]

\* AuthManager.__init__, with an empty keyring.
AuthIdle ==
    /\ _access_token = None
    /\ _token_expiry = 0
    /\ keyring = [tokens |-> None, api_token |-> None]
    /\ time = 0
    /\ auth_call = NoAuthCall

\* wait_for_callback has not been called.
OAuthIdle ==
    /\ request = None
    /\ http_status = 0
    /\ server_result = None
    /\ serve_pc = "none"
    /\ wait_pc = "idle"
    /\ elapsed = FALSE
    /\ wait_return = None

\* _draw_weekend_bands has not been called.
BandIdle ==
    /\ band_dates = <<>>
    /\ band_i = 0
    /\ in_weekend = FALSE
    /\ band_start = None
    /\ bands = <<>>
    /\ band_pc = "idle"

\* _fetch_children has not been called.
PageIdle ==
    /\ source_n = 0
    /\ fc_start = 0
    /\ fc_children = <<>>
    /\ fc_offsets = <<>>
    /\ fc_pc = "idle"

\* PreviewPanel.__init__ and _build_ui: no PDF, Export disabled, the
\* progress bar hidden, an empty status.
PreviewIdle ==
    /\ app = "running"
    /\ runs = <<>>
    /\ pv_queue = <<>>
    /\ _worker = None
    /\ pv_pdf = None
    /\ pv_export = FALSE
    /\ pv_progress = FALSE
    /\ pv_status = [text |-> "", run |-> 0]
    /\ pv_result = 0
    /\ pv_preview = None
    /\ pv_written = None

\* JiraClient.__init__ and MainWindow.__init__: no session, not logged in.
SessionIdle ==
    /\ jira_session = None
    /\ _logged_in = FALSE

\* The parts 7 and later are idle.
ExtIdle == OAuthIdle /\ BandIdle /\ PageIdle /\ PreviewIdle /\ SessionIdle

\* No raw issue has been received.
ParseIdle ==
    /\ raw_fields = [created |-> None, resolutiondate |-> None]
    /\ parsed = [created |-> None, resolved |-> None]
    /\ ppc = "idle"
    /\ parse_exc = None

\* The clock of the specifications that do not read the time zone.
UtcClock == [now |-> NowInstant, tz |-> 0]

Init ==
    /\ children = <<>>
    /\ clock \in Clocks
    /\ m = EpicMetrics
    /\ pc = "input"
    /\ ReportIdle
    /\ JiraIdle
    /\ ParseIdle
    /\ ConfigIdle
    /\ AuthIdle
    /\ ExtIdle

\* The data source appends one more child issue to the Epic.
AddChild ==
    /\ pc = "input"
    /\ \E F \in Families : \E c \in F.issues :
          /\ Len(children) < F.cap
          /\ \A i \in DOMAIN children : children[i] \in F.issues
          /\ children' = Append(children, c)
    /\ UNCHANGED <<clock, m, pc, reportVars, jiraVars, parseVars, configVars,
                 authVars, extVars>>

\* m = calculate_metrics(epic)
CalculateMetrics ==
    /\ pc = "input"
    /\ m' = calculate_metrics(children)
    /\ pc' = "done"
    /\ UNCHANGED <<children, clock, reportVars, jiraVars, parseVars, configVars,
                 authVars, extVars>>

Next == AddChild \/ CalculateMetrics

Spec == Init /\ [][Next]_vars


\* ------------------------------------------- the Epic, read as a set

\* The properties below describe the children as a set of positions and
\* state what the metrics must be, without the helpers of the code.

Idx == DOMAIN children
DoneIdx == {i \in Idx : children[i].status_category = "Done"}
EstimatedIdx == {i \in Idx : children[i].story_points \notin {None, Some(0)}}
CreatedIdx == {i \in Idx : children[i].created # None}
ResolvedIdx == {i \in Idx : children[i].resolved # None}

PointsAt(i) ==
    IF children[i].story_points = None THEN 0 ELSE children[i].story_points[1]

RECURSIVE PointsOver(_)
PointsOver(S) ==
    IF S = {} THEN 0
    ELSE LET i == CHOOSE x \in S : TRUE IN PointsAt(i) + PointsOver(S \ {i})

CreatedAt(i) == children[i].created[1]
ResolvedAt(i) == children[i].resolved[1]

Computed == pc = "done"

\* r, a rational, is n/d clamped to [0, 100] (d > 0).
IsClamped(r, n, d) ==
    IF n < 0 THEN r.num = 0
    ELSE IF n > 100 * d THEN r.num = 100 * r.den
    ELSE r.num * d = n * r.den

\* ------------------------------------------------------------------ C1

\* C1: for an Epic with at least one child, progress is the issue ratio in
\* percent when total_sp = 0 and the product of the point ratio and the
\* issue ratio in percent when total_sp > 0, clamped to [0, 100]; progress
\* always lies in [0, 100]; one Done 5-point child and one To Do 5-point
\* child give exactly 25.
C1_Progress ==
    (Computed /\ Idx # {}) =>
        LET ti == Cardinality(Idx)
            ci == Cardinality(DoneIdx)
            ts == PointsOver(EstimatedIdx)
            cs == PointsOver(EstimatedIdx \cap DoneIdx)
        IN  /\ ts = 0 => IsClamped(m.progress, 100 * ci, ti)
            /\ ts > 0 => IsClamped(m.progress, 100 * cs * ci, ts * ti)
            /\ m.progress.den > 0
            /\ 0 <= m.progress.num /\ m.progress.num <= 100 * m.progress.den
            /\ ( /\ ti = 2 /\ ci = 1
                 /\ \A i \in Idx : children[i].story_points = Some(5) )
               => m.progress = [num |-> 25, den |-> 1]

\* One Done 5-point child and one To Do 5-point child: progress 25.
C1_Witness ==
    /\ Computed
    /\ Len(children) = 2
    /\ children[1].status_category = "Done" /\ children[1].story_points = Some(5)
    /\ children[2].status_category = "To Do" /\ children[2].story_points = Some(5)
    /\ m.total_sp = 10 /\ m.completed_sp = 5
    /\ m.progress = [num |-> 25, den |-> 1]

\* ------------------------------------------------------------------ C2

NonDecreasing(series) ==
    \A i \in 1..(Len(series) - 1) : series[i] <= series[i + 1]

\* C2 as stated: for every Epic each of the four cumulative series is
\* non-decreasing.
C2_AllSeriesNonDecreasing ==
    Computed =>
        /\ NonDecreasing(m.total_sp_over_time)
        /\ NonDecreasing(m.completed_sp_over_time)
        /\ NonDecreasing(m.cumulative_issues)
        /\ NonDecreasing(m.cumulative_unestimated)

\* C2, amended: the two issue-count series are non-decreasing for every
\* Epic, and the two story-point series are non-decreasing for every Epic
\* none of whose children has negative story points.
C2_SeriesNonDecreasing ==
    Computed =>
        /\ NonDecreasing(m.cumulative_issues)
        /\ NonDecreasing(m.cumulative_unestimated)
        /\ (\A i \in Idx : PointsAt(i) >= 0) =>
              /\ NonDecreasing(m.total_sp_over_time)
              /\ NonDecreasing(m.completed_sp_over_time)

\* A series over several days in which completed points and issues grow.
C2_Witness ==
    /\ Computed
    /\ \A i \in Idx : PointsAt(i) >= 0
    /\ Len(m.dates) >= 3
    /\ m.total_sp_over_time[1] > 0
    /\ m.completed_sp_over_time[1] < m.completed_sp_over_time[Len(m.dates)]
    /\ m.cumulative_issues[1] < m.cumulative_issues[Len(m.dates)]
    /\ m.cumulative_unestimated[1] < m.cumulative_unestimated[Len(m.dates)]

\* ------------------------------------------------------------------ C3

\* The child whose creation timestamp is the earliest instant (the first
\* such child, when two share it).
EarliestCreated ==
    CHOOSE i \in CreatedIdx :
        \A j \in CreatedIdx :
            \/ CreatedAt(i).t < CreatedAt(j).t
            \/ CreatedAt(i).t = CreatedAt(j).t /\ i <= j

\* The calendar date of a timestamp, from its wall-clock seconds.
CalendarDay(dt) ==
    CHOOSE d \in 0..100 :
        d * SecondsPerDay <= dt.t + dt.off /\ dt.t + dt.off < (d + 1) * SecondsPerDay

\* C3: the five time-series arrays have the same length; they are empty
\* when no child has a creation timestamp or the earliest child-creation
\* date is on or after today; otherwise dates holds the consecutive days
\* from the earliest child-creation date through today, ascending.
C3_SeriesShape ==
    Computed =>
        /\ Len(m.total_sp_over_time) = Len(m.dates)
        /\ Len(m.completed_sp_over_time) = Len(m.dates)
        /\ Len(m.cumulative_issues) = Len(m.dates)
        /\ Len(m.cumulative_unestimated) = Len(m.dates)
        /\ IF CreatedIdx = {} THEN m.dates = <<>>
           ELSE LET first == CalendarDay(CreatedAt(EarliestCreated))
                IN  IF first >= Today THEN m.dates = <<>>
                    ELSE /\ Len(m.dates) = Today - first + 1
                         /\ m.dates[1] = first
                         /\ m.dates[Len(m.dates)] = Today
                         /\ \A i \in 1..(Len(m.dates) - 1) :
                               m.dates[i + 1] = m.dates[i] + 1

\* A series from the day the first child was created through today.
C3_Witness ==
    /\ Computed
    /\ Len(m.dates) = 3
    /\ m.dates[3] = Today
    /\ Len(m.cumulative_issues) = 3


\* ------------------------------------------------------------------ C4

\* The forecast is offered: velocity is a positive number and
\* remaining_sp > 0.
ForecastDue ==
    /\ m.velocity_sp_per_week # None
    /\ m.velocity_sp_per_week[1].num > 0
    /\ m.remaining_sp > 0

\* C4 as stated: the forecast date is today plus ceil(remaining_sp /
\* velocity) weeks.
C4_ForecastCeilWeeks ==
    (Computed /\ ForecastDue) =>
        /\ m.forecast_date # None
        /\ \E w \in 0..200 :
              LET v == m.velocity_sp_per_week[1]
              IN  \* w = ceil(remaining_sp / velocity)
                  /\ (w - 1) * v.num < m.remaining_sp * v.den
                  /\ m.remaining_sp * v.den <= w * v.num
                  /\ m.forecast_date[1] = Today + 7 * w

\* C4, amended: the forecast date is today plus floor(7 * remaining_sp /
\* velocity) days: the weeks remaining, fractional, count as days and the
\* part of a day is dropped.
C4_ForecastWholeDays ==
    (Computed /\ ForecastDue) =>
        /\ m.forecast_date # None
        /\ LET v == m.velocity_sp_per_week[1]
               d == m.forecast_date[1] - Today
           IN  \* d = floor(7 * remaining_sp / velocity)
               /\ d * v.num <= 7 * m.remaining_sp * v.den
               /\ 7 * m.remaining_sp * v.den < (d + 1) * v.num

\* 5 points remain at 3 points in 4 weeks: 6 2/3 weeks, 46 days.
C4_Witness ==
    /\ Computed
    /\ ForecastDue
    /\ m.remaining_sp = 5
    /\ m.velocity_sp_per_week = Some([num |-> 3, den |-> 4])
    /\ m.forecast_date = Some(Today + 46)

\* ------------------------------------------------------------------ C5

\* C5: forecast_date is None whenever velocity is None, zero or negative,
\* or remaining_sp <= 0, which includes every Epic whose estimated
\* children are all Done; it is a date only when velocity > 0 and
\* remaining_sp > 0.
C5_ForecastNone ==
    Computed =>
        /\ (m.forecast_date = None) <=> ~ForecastDue
        /\ EstimatedIdx \subseteq DoneIdx => m.forecast_date = None

\* Every estimated child is Done, points were completed in the last four
\* weeks, and there is no forecast.
C5_Witness ==
    /\ Computed
    /\ EstimatedIdx # {} /\ EstimatedIdx \subseteq DoneIdx
    /\ m.velocity_sp_per_week # None /\ m.velocity_sp_per_week[1].num > 0
    /\ m.remaining_sp = 0
    /\ m.forecast_date = None

\* ------------------------------------------------------------------ C6

\* The children that are Done and were resolved within the last 4 weeks.
DoneInWindow ==
    {i \in DoneIdx \cap ResolvedIdx :
        ResolvedAt(i).t >= clock.now - 4 * 7 * SecondsPerDay}

\* C6: velocity_sp_per_week is the sum of the story points of the children
\* that are Done and were resolved within the last 4 weeks, divided by 4,
\* and None when that sum is zero; so it is None when no child was
\* resolved as Done inside the window, whatever was completed earlier.
C6_Velocity ==
    Computed =>
        LET sp == PointsOver(DoneInWindow)
        IN  /\ sp = 0 => m.velocity_sp_per_week = None
            /\ sp # 0 =>
                  /\ m.velocity_sp_per_week # None
                  /\ m.velocity_sp_per_week[1].num * 4 = sp * m.velocity_sp_per_week[1].den
            /\ DoneInWindow = {} => m.velocity_sp_per_week = None

\* An estimated child done more than 4 weeks ago and nothing done since:
\* no velocity.
C6_Witness ==
    /\ Computed
    /\ DoneInWindow = {}
    /\ \E i \in DoneIdx \cap ResolvedIdx \cap EstimatedIdx : PointsAt(i) > 0
    /\ m.completed_sp > 0
    /\ m.velocity_sp_per_week = None

\* ------------------------------------------------------------------ C7

\* C7: unestimated_issues is the number of children whose story points are
\* None or 0; these children add nothing to total_sp and completed_sp.
C7_Unestimated ==
    Computed =>
        /\ m.unestimated_issues =
              Cardinality({i \in Idx : children[i].story_points \in {None, Some(0)}})
        /\ m.unestimated_issues = Cardinality(Idx \ EstimatedIdx)
        /\ m.total_sp = PointsOver(EstimatedIdx)
        /\ m.completed_sp = PointsOver(EstimatedIdx \cap DoneIdx)

\* A child with no estimate next to a child estimated at 0.
C7_Witness ==
    /\ Computed
    /\ \E i, j \in Idx :
          /\ children[i].story_points = None
          /\ children[j].story_points = Some(0)
    /\ m.unestimated_issues = 2


\* ------------------------------------------------------------------ C8

\* The children created more than 7 days after the earliest creation time.
AddedLater ==
    {i \in CreatedIdx :
        \E j \in CreatedIdx :
            /\ \A k \in CreatedIdx : CreatedAt(j).t <= CreatedAt(k).t
            /\ CreatedAt(i).t - CreatedAt(j).t > 7 * SecondsPerDay}

\* C8: scope_change_pct is None when fewer than 2 children have a creation
\* timestamp; otherwise it is the number of children created more than 7
\* days after the earliest creation time, divided by total_issues (all the
\* children, with or without a creation timestamp), times 100.
C8_ScopeChange ==
    Computed =>
        IF Cardinality(CreatedIdx) < 2
        THEN m.scope_change_pct = None
        ELSE /\ m.scope_change_pct # None
             /\ m.scope_change_pct[1].num * Cardinality(Idx)
                   = 100 * Cardinality(AddedLater) * m.scope_change_pct[1].den

\* Three children, one without a creation timestamp, one created 7 days
\* and 1 second after the first: 1 of 3.
C8_Witness ==
    /\ Computed
    /\ Cardinality(Idx) = 3
    /\ Cardinality(CreatedIdx) = 2
    /\ Cardinality(AddedLater) = 1
    /\ m.scope_change_pct = Some([num |-> 100, den |-> 3])

\* ------------------------------------------------------------------ C9

\* The children that are Done and have both timestamps.
CycleIdx == DoneIdx \cap CreatedIdx \cap ResolvedIdx

RECURSIVE SecondsOver(_)
SecondsOver(S) ==
    IF S = {} THEN 0
    ELSE LET i == CHOOSE x \in S : TRUE
         IN  (ResolvedAt(i).t - CreatedAt(i).t) + SecondsOver(S \ {i})

\* C9: avg_cycle_time_days is the mean of resolved - created, in days,
\* over exactly the children that are Done and have both timestamps, and
\* None when there is no such child.
C9_AvgCycleTime ==
    Computed =>
        IF CycleIdx = {}
        THEN m.avg_cycle_time_days = None
        ELSE /\ m.avg_cycle_time_days # None
             /\ LET avg == m.avg_cycle_time_days[1]
                    \* avg = total seconds / (seconds per day * children):
                    \* with k = (seconds per day * children) / avg.den, a
                    \* whole number, avg.num * k is the total of seconds
                    k == (SecondsPerDay * Cardinality(CycleIdx)) \div avg.den
                IN  /\ k * avg.den = SecondsPerDay * Cardinality(CycleIdx)
                    /\ avg.num * k = SecondsOver(CycleIdx)

\* A Done child with both timestamps next to a child in progress that has
\* both as well: the mean is the Done child's 29 days.
C9_Witness ==
    /\ Computed
    /\ Cardinality(CycleIdx) = 1
    /\ \E i \in (CreatedIdx \cap ResolvedIdx) \ DoneIdx : TRUE
    /\ m.avg_cycle_time_days = Some([num |-> 29, den |-> 1])

\* ------------------------------------------------------------------ C10

\* C10: for an Epic with zero children calculate_metrics returns the
\* default EpicMetrics: counts and sums 0, progress 0.0, the four optional
\* metrics None, blocked_issues 0, the five series empty.
C10_EmptyEpic ==
    (Computed /\ children = <<>>) =>
        /\ m.total_issues = 0 /\ m.completed_issues = 0
        /\ m.open_issues = 0 /\ m.unestimated_issues = 0
        /\ m.total_sp = 0 /\ m.completed_sp = 0 /\ m.remaining_sp = 0
        /\ m.progress.num = 0
        /\ m.avg_cycle_time_days = <<>>
        /\ m.velocity_sp_per_week = <<>>
        /\ m.scope_change_pct = <<>>
        /\ m.forecast_date = <<>>
        /\ m.blocked_issues = 0
        /\ m.dates = <<>>
        /\ m.total_sp_over_time = <<>>
        /\ m.completed_sp_over_time = <<>>
        /\ m.cumulative_issues = <<>>
        /\ m.cumulative_unestimated = <<>>

\* calculate_metrics has returned for an Epic without children.
C10_Witness == Computed /\ children = <<>> /\ m.total_issues = 0

\* ======================================================================
\* Part 2: a report run
\* ======================================================================

\* --------------------------------------------------------------- bounds

\* Largest number of keys in ReportConfig.epic_keys.
MaxKeys == 2

\* ------------------------------------------------------- the data source

\* The Epics of the Jira site: one without children, one whose only child
\* is dated and done, one whose only child has no creation timestamp.
EpicKeys == {"E-1", "E-2", "E-3"}

ChildrenOf(key) ==
    CASE key = "E-1" -> <<>>
      [] key = "E-2" -> <<JiraIssue("Open", "Done", Some(3), Recent, Yesterday)>>
      [] OTHER -> <<JiraIssue("Blocked", "To Do", None, None, None),
                    JiraIssue("Closed", "Done", Some(3), EarlierToday,
                              EarlierToday)>>

\* EpicData, reduced to the fields the report run reads.
EpicData(key) == [key |-> key, children |-> ChildrenOf(key)]

\* What fetch_epic can return for a key: None, or the Epic of that key.
FetchResults(key) == {None, Some(EpicData(key))}

\* The message the worker records for a key that was not fetched; the
\* text around the key is fixed.
NotFound(key) == [text |-> "Epic not found. Check the key and try again.",
                  key |-> key]

\* ------------------------------------------------------------ the chart

\* generate_epic_chart: None without a time series, else the PNG, named
\* here by the number of days it plots.
generate_epic_chart_Always(metrics) == Some(Len(metrics.dates))

generate_epic_chart(metrics) ==
    IF metrics.dates = <<>> THEN None ELSE Some(Len(metrics.dates))

\* _build_chart_image: the Image flowable of the PNG, or None.
_build_chart_image(metrics) ==
    LET png == generate_epic_chart(metrics)
    IN  IF IsNone(png) THEN None ELSE Some([png |-> Val(png)])

\* ---------------------------------------------------------- the document

\* f"{x:.1f}": x rounded to tenths, ties to even; the result in tenths.
Tenths(x) ==
    LET n == 10 * x.num
        q == n \div x.den
        r == n % x.den
    IN  IF 2 * r > x.den \/ (2 * r = x.den /\ q % 2 = 1) THEN q + 1 ELSE q

\* f"{x:.0f}" of a float: x rounded to an integer, ties to even.
Units(x) ==
    LET q == x.num \div x.den
        r == x.num % x.den
    IN  IF 2 * r > x.den \/ (2 * r = x.den /\ q % 2 = 1) THEN q + 1 ELSE q

\* The truth value of an Optional[float]: None and 0.0 are false.
TruthyFloat(o) == ~IsNone(o) /\ Val(o).num # 0

\* _build_summary_box: the values of the sidebar, top to bottom.  A cell
\* that shows "N/A" is None.
_build_summary_box(metrics) ==
    [ total_issues |-> metrics.total_issues,
      completed |-> metrics.completed_issues,
      open |-> metrics.open_issues,
      unestimated |-> metrics.unestimated_issues,
      total_sp |-> metrics.total_sp,
      done_sp |-> metrics.completed_sp,
      remaining_sp |-> metrics.remaining_sp,
      avg_cycle_time |->
          IF TruthyFloat(metrics.avg_cycle_time_days)
          THEN Some(Tenths(Val(metrics.avg_cycle_time_days))) ELSE None,
      velocity |->
          IF TruthyFloat(metrics.velocity_sp_per_week)
          THEN Some(Tenths(Val(metrics.velocity_sp_per_week))) ELSE None,
      scope_change |->
          IF ~IsNone(metrics.scope_change_pct)
          THEN Some(Units(Val(metrics.scope_change_pct))) ELSE None,
      blocked |-> metrics.blocked_issues,
      forecast |-> metrics.forecast_date ]

\* _add_epic_page: the header, then the chart (or the placeholder
\* paragraph when there is no chart image) beside the sidebar.
_add_epic_page(epic, metrics) ==
    LET chart_img == _build_chart_image(metrics)
    IN  [ kind |-> "epic",
          key |-> epic.key,
          chart |-> IF chart_img # None THEN chart_img ELSE None,
          placeholder |-> IF chart_img # None THEN None
                          ELSE Some("No chart data available"),
          sidebar |-> _build_summary_box(metrics) ]

\* zip(a, b): the pairs up to the shorter of the two lists.
Zip(a, b) ==
    LET n == IF Len(a) < Len(b) THEN Len(a) ELSE Len(b)
    IN  [i \in 1..n |-> <<a[i], b[i]>>]

\* _add_summary_table: one row per (epic, metrics) pair.
_add_summary_table(rep) ==
    [ kind |-> "summary",
      rows |-> LET z == Zip(rep.epics, rep.metrics)
               IN  [i \in 1..Len(z) |->
                      [ key |-> z[i][1].key,
                        progress |-> Units(z[i][2].progress),
                        total |-> z[i][2].total_issues,
                        done |-> z[i][2].completed_issues,
                        unestimated |-> z[i][2].unestimated_issues,
                        total_sp |-> z[i][2].total_sp,
                        done_sp |-> z[i][2].completed_sp ]] ]

_add_title_page == [kind |-> "title"]

\* Variant of EpicPages: the page of the first Epic is left out.
EpicPages_SkipFirst(rep) ==
    LET z == Zip(rep.epics, rep.metrics)
    IN  [i \in 1..(Len(z) - 1) |-> _add_epic_page(z[i + 1][1], z[i + 1][2])]

\* The loop of generate_pdf over zip(report.epics, report.metrics).
EpicPages(rep) ==
    LET z == Zip(rep.epics, rep.metrics)
    IN  [i \in 1..Len(z) |-> _add_epic_page(z[i][1], z[i][2])]

\* generate_pdf: the document as the sequence of its pages, each started
\* by a PageBreak: title, summary, then the per-Epic pages.
generate_pdf(rep) ==
    <<_add_title_page>> \o <<_add_summary_table(rep)>> \o EpicPages(rep)

\* ------------------------------------------------------ the state machine

InitReport ==
    /\ children = <<>>
    /\ m = EpicMetrics
    /\ pc = "idle"
    /\ clock \in Clocks
    /\ ReportIdle
    /\ JiraIdle
    /\ ParseIdle
    /\ ConfigIdle
    /\ AuthIdle
    /\ ExtIdle

\* PreviewPanel.generate(config): without a Jira connection a warning and
\* nothing else; otherwise Export is disabled, the progress bar shown, the
\* preview cleared and a worker started on the config's keys.
Generate ==
    /\ wpc \in {"idle", "crashed"}
    /\ \E connected \in BOOLEAN :
         IF ~connected
         THEN /\ dialogs' = <<"warning: Not Connected">>
              /\ UNCHANGED <<epic_keys, processed, report, wpc, _pdf_bytes,
                             export_enabled, progress_shown, status_label>>
         ELSE /\ \E n \in 0..MaxKeys : \E keys \in [1..n -> EpicKeys] :
                    epic_keys' = keys
              /\ processed' = 0
              /\ report' = ReportData
              /\ wpc' = "run"
              /\ export_enabled' = FALSE
              /\ progress_shown' = TRUE
              /\ dialogs' = <<>>
              /\ UNCHANGED <<_pdf_bytes, status_label>>
    /\ UNCHANGED <<metricsVars, clock, jiraVars, parseVars, configVars,
                   authVars, extVars>>

\* Variant of WorkerAppend: the Epic is recorded without its metrics.
WorkerAppend_EpicOnly(rep, key, epic) ==
    IF IsNone(epic)
    THEN [rep EXCEPT !.errors = Append(@, NotFound(key))]
    ELSE [rep EXCEPT !.epics = Append(@, Val(epic))]

\* The body of the worker's loop for one key, given what fetch_epic
\* returned.
WorkerAppend(rep, key, epic) ==
    IF IsNone(epic)
    THEN [rep EXCEPT !.errors = Append(@, NotFound(key))]
    ELSE [rep EXCEPT !.epics = Append(@, Val(epic)),
                     !.metrics = Append(@, calculate_metrics(Val(epic).children))]

\* One iteration of the loop of _GenerateWorker.run.
WorkerStep ==
    /\ wpc = "run"
    /\ processed < Len(epic_keys)
    /\ LET key == epic_keys[processed + 1]
       IN  \E epic \in FetchResults(key) :
              report' = WorkerAppend(report, key, epic)
    /\ processed' = processed + 1
    /\ status_label' = "Fetching"
    /\ UNCHANGED <<epic_keys, wpc, _pdf_bytes, export_enabled,
                   progress_shown, dialogs, metricsVars, clock, jiraVars, parseVars, configVars,
                   authVars, extVars>>

\* fetch_epic raises: run is left by the exception, finished is not
\* emitted.
WorkerRaise ==
    /\ wpc = "run"
    /\ processed < Len(epic_keys)
    /\ wpc' = "crashed"
    /\ UNCHANGED <<epic_keys, processed, report, _pdf_bytes, export_enabled,
                   progress_shown, status_label, dialogs, metricsVars, clock, jiraVars, parseVars, configVars,
                   authVars, extVars>>

\* The end of _GenerateWorker.run: finished.emit(report).
WorkerEmit ==
    /\ wpc = "run"
    /\ processed = Len(epic_keys)
    /\ wpc' = "emitted"
    /\ status_label' = IF report.epics # <<>> THEN "Generating PDF" ELSE status_label
    /\ UNCHANGED <<epic_keys, processed, report, _pdf_bytes, export_enabled,
                   progress_shown, dialogs, metricsVars, clock, jiraVars, parseVars, configVars,
                   authVars, extVars>>

\* Variant of _on_generate_finished: when rendering raises, the pages built
\* so far are kept as the document.
_on_generate_finished_KeepPartial ==
    /\ wpc = "emitted"
    /\ wpc' = "idle"
    /\ IF report.epics = <<>>
       THEN /\ progress_shown' = FALSE
            /\ status_label' = "No data to generate a report."
            /\ dialogs' = IF report.errors # <<>>
                          THEN Append(dialogs, "warning: Errors")
                          ELSE dialogs
            /\ UNCHANGED <<_pdf_bytes, export_enabled>>
       ELSE LET shown == IF report.errors # <<>>
                         THEN Append(dialogs, "warning: Some Epics Failed")
                         ELSE dialogs
            IN  \E raised \in BOOLEAN :
                  IF raised
                  THEN /\ dialogs' = Append(shown, "critical: PDF Error")
                       /\ progress_shown' = FALSE
                       /\ status_label' = "PDF generation failed."
                       /\ _pdf_bytes' = Some(<<_add_title_page>>)
                       /\ UNCHANGED export_enabled
                  ELSE /\ _pdf_bytes' = Some(generate_pdf(report))
                       /\ progress_shown' = FALSE
                       /\ status_label' = "Report ready"
                       /\ export_enabled' = TRUE
                       /\ dialogs' = shown
    /\ UNCHANGED <<epic_keys, processed, report, metricsVars, clock, jiraVars, parseVars, configVars,
                   authVars, extVars>>

\* PreviewPanel._on_generate_finished(report).  Rendering either returns
\* the document or raises.
_on_generate_finished ==
    /\ wpc = "emitted"
    /\ wpc' = "idle"
    /\ IF report.epics = <<>>
       THEN /\ progress_shown' = FALSE
            /\ status_label' = "No data to generate a report."
            /\ dialogs' = IF report.errors # <<>>
                          THEN Append(dialogs, "warning: Errors")
                          ELSE dialogs
            /\ UNCHANGED <<_pdf_bytes, export_enabled>>
       ELSE LET shown == IF report.errors # <<>>
                         THEN Append(dialogs, "warning: Some Epics Failed")
                         ELSE dialogs
            IN  \E raised \in BOOLEAN :
                  IF raised
                  THEN /\ dialogs' = Append(shown, "critical: PDF Error")
                       /\ progress_shown' = FALSE
                       /\ status_label' = "PDF generation failed."
                       /\ UNCHANGED <<_pdf_bytes, export_enabled>>
                  ELSE /\ _pdf_bytes' = Some(generate_pdf(report))
                       /\ progress_shown' = FALSE
                       /\ status_label' = "Report ready"
                       /\ export_enabled' = TRUE
                       /\ dialogs' = shown
    /\ UNCHANGED <<epic_keys, processed, report, metricsVars, clock, jiraVars, parseVars, configVars,
                   authVars, extVars>>

NextReport ==
    \/ Generate
    \/ WorkerStep
    \/ WorkerRaise
    \/ WorkerEmit
    \/ _on_generate_finished

SpecReport == InitReport /\ [][NextReport]_vars

\* ---------------------------------------------- the run, read as a whole

\* The entries of s at the positions of S, in the order of s.
At(s, S) ==
    LET F[i \in 0..Len(s)] ==
            IF i = 0 THEN <<>>
            ELSE IF i \in S THEN Append(F[i - 1], s[i]) ELSE F[i - 1]
    IN  F[Len(s)]

\* The keys the worker has gone through so far.
KeysDone == SubSeq(epic_keys, 1, processed)

EpicKeysOf(rep) == [i \in 1..Len(rep.epics) |-> rep.epics[i].key]
ErrorKeysOf(rep) == [i \in 1..Len(rep.errors) |-> rep.errors[i].key]

\* C11: while the worker goes through config.epic_keys in order, after
\* every key the lists of Epics and of metrics have the same length, the
\* metrics at each index are those computed from the Epic at that index,
\* and Epics plus errors number the keys processed so far: the keys split
\* into those not fetched, each with exactly one error entry naming it, in
\* order, and those fetched, each with its Epic and nothing in errors, in
\* order; a key that is not fetched does not stop the keys after it.
C11_WorkerInvariant ==
    /\ processed <= Len(epic_keys)
    /\ Len(report.epics) = Len(report.metrics)
    /\ \A i \in 1..Len(report.epics) :
          report.metrics[i] = calculate_metrics(report.epics[i].children)
    /\ Len(report.epics) + Len(report.errors) = processed
    /\ \E NotFetched \in SUBSET (1..processed) :
          /\ ErrorKeysOf(report) = At(KeysDone, NotFetched)
          /\ EpicKeysOf(report) = At(KeysDone, (1..processed) \ NotFetched)
    /\ \A i \in 1..Len(report.errors) :
          report.errors[i] = NotFound(report.errors[i].key)

\* A run of two keys: the first was not found, the second was fetched
\* after it, and the report was emitted.
C11_Witness ==
    /\ wpc = "emitted"
    /\ processed = 2
    /\ ErrorKeysOf(report) = <<epic_keys[1]>>
    /\ EpicKeysOf(report) = <<epic_keys[2]>>
    /\ Len(report.metrics) = 1
    /\ report.metrics[1].total_issues = 1

\* The pages of doc are the title page, the summary page, then one page
\* per Epic of rep, in order, showing the metrics of the same index.
PagesFollow(doc, rep) ==
    /\ Len(doc) = 2 + Len(rep.epics)
    /\ doc[1].kind = "title"
    /\ doc[2].kind = "summary"
    /\ Len(doc[2].rows) = Len(rep.epics)
    /\ \A i \in 1..Len(rep.epics) :
          /\ doc[2 + i].kind = "epic"
          /\ doc[2 + i].key = rep.epics[i].key
          /\ doc[2 + i].sidebar.total_issues = rep.metrics[i].total_issues
          /\ doc[2 + i].sidebar.completed = rep.metrics[i].completed_issues
          /\ doc[2 + i].sidebar.blocked = rep.metrics[i].blocked_issues
          /\ doc[2 + i].sidebar.done_sp = rep.metrics[i].completed_sp

\* C12: the document generate_pdf builds from a report is the title page,
\* then the summary page, then exactly one per-Epic page for each entry of
\* report.epics, in list order, each showing the metrics at the same
\* index: two pages for a report without Epics, 2 + N pages for N Epics.
\* The document the panel stores after a run is that document.
C12_PageOrder ==
    /\ PagesFollow(generate_pdf(report), report)
    /\ report.epics = <<>> =>
          generate_pdf(report) = <<[kind |-> "title"],
                                   [kind |-> "summary", rows |-> <<>>]>>
    /\ (wpc = "idle" /\ status_label = "Report ready") =>
          /\ ~IsNone(_pdf_bytes)
          /\ PagesFollow(Val(_pdf_bytes), report)

\* A run that fetched two different Epics and stored a four-page document.
C12_Witness ==
    /\ wpc = "idle"
    /\ status_label = "Report ready"
    /\ Len(report.epics) = 2
    /\ report.epics[1].key # report.epics[2].key
    /\ Len(Val(_pdf_bytes)) = 4
    /\ Val(_pdf_bytes)[3].key = report.epics[1].key
    /\ Val(_pdf_bytes)[4].key = report.epics[2].key

\* The sidebar of an Epic without data: every count and sum is zero, every
\* optional figure shows "N/A".
ZeroSidebar(box) ==
    /\ box.total_issues = 0 /\ box.completed = 0 /\ box.open = 0
    /\ box.unestimated = 0 /\ box.blocked = 0
    /\ box.total_sp = 0 /\ box.done_sp = 0 /\ box.remaining_sp = 0
    /\ IsNone(box.avg_cycle_time) /\ IsNone(box.velocity)
    /\ IsNone(box.scope_change) /\ IsNone(box.forecast)

\* C13: generate_epic_chart returns None exactly when metrics.dates is
\* empty; the per-Epic page shows the "No chart data available"
\* placeholder exactly when the renderer returned None and the chart image
\* otherwise; so the page of an Epic without children has the placeholder
\* and a sidebar of zeros.
C13_ChartOrPlaceholder ==
    \A i \in 1..Len(report.epics) :
        LET png == generate_epic_chart(report.metrics[i])
            page == generate_pdf(report)[2 + i]
        IN  /\ IsNone(png) <=> report.metrics[i].dates = <<>>
            /\ IsNone(png) <=> page.placeholder = Some("No chart data available")
            /\ IsNone(png) <=> IsNone(page.chart)
            /\ ~IsNone(png) => page.chart = Some([png |-> Val(png)])
            /\ ~IsNone(png) => IsNone(page.placeholder)
            /\ report.epics[i].children = <<>> =>
                  /\ page.placeholder = Some("No chart data available")
                  /\ ZeroSidebar(page.sidebar)

\* A stored document whose third page belongs to an Epic without children
\* (placeholder, zero sidebar) and whose fourth page carries a chart.
C13_Witness ==
    /\ status_label = "Report ready"
    /\ Len(report.epics) = 2
    /\ report.epics[1].children = <<>>
    /\ ~IsNone(Val(_pdf_bytes)[3].placeholder)
    /\ ZeroSidebar(Val(_pdf_bytes)[3].sidebar)
    /\ ~IsNone(Val(_pdf_bytes)[4].chart)

\* The step in which a report run ends because rendering raised.
RenderFailed ==
    /\ wpc = "emitted"
    /\ wpc' = "idle"
    /\ status_label' = "PDF generation failed."

\* The number of entries of s equal to x.
Count(s, x) == Cardinality({i \in DOMAIN s : s[i] = x})

\* C14 as stated: when rendering raises during a report run, the run ends
\* failed with exactly one error reported to the user since Generate was
\* pressed, Export stays disabled and no document of the run is stored.
C14_ExactlyOneError ==
    [][RenderFailed =>
         /\ Len(dialogs') = 1
         /\ export_enabled' = FALSE
         /\ _pdf_bytes' = _pdf_bytes]_vars

\* C14, amended: when rendering raises during a report run, the run ends
\* failed with exactly one rendering error reported to the user, after the
\* warning that lists the Epics that could not be fetched when there are
\* any and nothing else; Export stays disabled, the progress bar is
\* hidden, and the run stores no document: _pdf_bytes is what it was
\* before the run ended.
C14_RenderFailure ==
    [][RenderFailed =>
         /\ Count(dialogs', "critical: PDF Error") = 1
         /\ dialogs' = (IF report.errors # <<>>
                        THEN <<"warning: Some Epics Failed">> ELSE <<>>)
                       \o <<"critical: PDF Error">>
         /\ export_enabled' = FALSE
         /\ progress_shown' = FALSE
         /\ _pdf_bytes' = _pdf_bytes]_vars

\* A run that fetched one Epic, failed to fetch another and then failed to
\* render, after an earlier run had stored a document.
C14_Witness ==
    /\ wpc = "idle"
    /\ status_label = "PDF generation failed."
    /\ report.epics # <<>>
    /\ report.errors # <<>>
    /\ dialogs = <<"warning: Some Epics Failed", "critical: PDF Error">>
    /\ ~export_enabled
    /\ ~IsNone(_pdf_bytes)

\* ======================================================================
\* Part 3: the Jira client
\* ======================================================================

_MAX_RESULTS == 100
_MAX_RETRIES == 4
_BACKOFF_BASE == 1

\* Largest number of full pages of children an Epic has.
MaxPages == 2

\* ------------------------------------------------------- the data source

JIRAError(status_code) == [type |-> "JIRAError", status_code |-> status_code]

\* What search_issues can raise: a rate limit, another HTTP error, and an
\* error that is no JIRAError (the connection is lost).
Exceptions ==
    { JIRAError(429), JIRAError(404),
      [type |-> "ConnectionError", status_code |-> 0] }

\* The answers of search_issues(jql, startAt, maxResults): a list of at
\* most maxResults issues (its length is what the client reads), or an
\* exception.
Responses(max_results) ==
    { [exc |-> None, n |-> n] : n \in {0, 1, max_results} }
    \cup { [exc |-> Some(e), n |-> 0] : e \in Exceptions }

IsRateLimit(e) == e.type = "JIRAError" /\ e.status_code = 429

\* ---------------------------------------------------- _search_with_retry

\* Variant of SearchStep: the last attempt also sleeps and is retried.
SearchStep_RetryLast(sr, resp) ==
    LET called == [sr EXCEPT !.calls = @ + 1,
                             !.answers = Append(@, resp)]
    IN  IF IsNone(resp.exc)
        THEN [called EXCEPT !.outcome = "returned", !.n = resp.n]
        ELSE IF IsRateLimit(Val(resp.exc)) /\ sr.attempt < _MAX_RETRIES
             THEN [called EXCEPT
                     !.sleeps = Append(@, _BACKOFF_BASE * (2 ^ sr.attempt)),
                     !.attempt = @ + 1]
             ELSE [called EXCEPT !.outcome = "raised", !.exc = resp.exc]

\* One pass of the loop `for attempt in range(_MAX_RETRIES)`: the search
\* call and what follows the server's answer.
SearchStep(sr, resp) ==
    LET called == [sr EXCEPT !.calls = @ + 1,
                             !.answers = Append(@, resp)]
    IN  IF IsNone(resp.exc)
        THEN [called EXCEPT !.outcome = "returned", !.n = resp.n]
        ELSE IF IsRateLimit(Val(resp.exc)) /\ sr.attempt < _MAX_RETRIES - 1
             THEN [called EXCEPT
                     !.sleeps = Append(@, _BACKOFF_BASE * (2 ^ sr.attempt)),
                     !.attempt = @ + 1]
             ELSE [called EXCEPT !.outcome = "raised", !.exc = resp.exc]

\* _search_with_retry is entered: attempt 0, nothing called yet.
NewSearch == [NoSearch EXCEPT !.outcome = "running"]

\* ------------------------------------------------------------ fetch_epic

InitJira ==
    /\ children = <<>>
    /\ m = EpicMetrics
    /\ pc = "idle"
    /\ clock = UtcClock
    /\ ReportIdle
    /\ JiraIdle
    /\ ParseIdle
    /\ ConfigIdle
    /\ AuthIdle
    /\ ExtIdle

\* The client connects to Jira or loses its session.
Connect ==
    /\ fpc \in {"idle", "returned", "raised"}
    /\ jira_connected' = ~jira_connected
    /\ UNCHANGED <<fpc, search, start, fetched, fetch_result, fetch_exc,
                   metricsVars, clock, reportVars, parseVars, configVars,
                   authVars, extVars>>

\* fetch_epic is called: None at once without a session, else the lookup
\* of the Epic begins.
FetchEpic ==
    /\ fpc \in {"idle", "returned", "raised"}
    /\ search' = NoSearch
    /\ start' = 0
    /\ fetched' = 0
    /\ fetch_result' = None
    /\ fetch_exc' = None
    /\ fpc' = IF jira_connected THEN "lookup" ELSE "returned"
    /\ UNCHANGED <<jira_connected, metricsVars, clock, reportVars, parseVars, configVars,
                   authVars, extVars>>

\* What fetch_epic does once _search_with_retry has made a call, `at` the
\* lookup or the child pages, with `got` children so far: it goes on
\* waiting while the search retries; an exception from the lookup gives
\* None if it is a JIRAError and is raised otherwise; an exception from a
\* child page is raised; an empty lookup gives None; a page of children
\* is added, and the last page (empty or short) ends the fetch.
AfterSearch(at, sr, got) ==
    CASE sr.outcome = "running" ->
            [fpc |-> at, start |-> start, fetched |-> got,
             result |-> None, exc |-> None]
      [] sr.outcome = "raised" /\ at = "lookup" ->
            IF Val(sr.exc).type = "JIRAError"
            THEN [fpc |-> "returned", start |-> start, fetched |-> got,
                  result |-> None, exc |-> None]
            ELSE [fpc |-> "raised", start |-> start, fetched |-> got,
                  result |-> None, exc |-> sr.exc]
      [] sr.outcome = "raised" /\ at = "children" ->
            [fpc |-> "raised", start |-> start, fetched |-> got,
             result |-> None, exc |-> sr.exc]
      [] sr.outcome = "returned" /\ at = "lookup" ->
            IF sr.n = 0
            THEN [fpc |-> "returned", start |-> start, fetched |-> got,
                  result |-> None, exc |-> None]
            ELSE [fpc |-> "children", start |-> 0, fetched |-> 0,
                  result |-> None, exc |-> None]
      [] OTHER ->
            IF sr.n = 0 \/ sr.n < _MAX_RESULTS
            THEN [fpc |-> "returned", start |-> start, fetched |-> got + sr.n,
                  result |-> Some([children |-> got + sr.n]), exc |-> None]
            ELSE [fpc |-> "children", start |-> start + _MAX_RESULTS,
                  fetched |-> got + sr.n, result |-> None, exc |-> None]

\* One search call of the fetch in progress: the lookup asks for one
\* issue, a child page for _MAX_RESULTS from start; an Epic has at most
\* MaxPages full pages of children.
SearchCall ==
    /\ fpc \in {"lookup", "children"}
    /\ \E resp \in Responses(IF fpc = "lookup" THEN 1 ELSE _MAX_RESULTS) :
          /\ (fpc = "children" /\ resp.n = _MAX_RESULTS) =>
                start < MaxPages * _MAX_RESULTS
          /\ LET sr == SearchStep(IF search.outcome = "running"
                                  THEN search ELSE NewSearch, resp)
                 after == AfterSearch(fpc, sr, fetched)
             IN  /\ search' = sr
                 /\ fpc' = after.fpc
                 /\ start' = after.start
                 /\ fetched' = after.fetched
                 /\ fetch_result' = after.result
                 /\ fetch_exc' = after.exc
    /\ UNCHANGED <<jira_connected, metricsVars, clock, reportVars, parseVars, configVars,
                   authVars, extVars>>

NextJira == Connect \/ FetchEpic \/ SearchCall

SpecJira == InitJira /\ [][NextJira]_vars

\* ------------------------------------------- the search, read as a whole

RateLimited == [exc |-> Some(JIRAError(429)), n |-> 0]

\* The delays slept before the 2nd, 3rd and 4th call, in seconds.
Backoff == <<1, 2, 4>>

\* C16: _search_with_retry makes at most 4 search calls and has finished
\* by the 4th; every answer before the last is a 429, each followed by a
\* sleep of 1s, 2s, then 4s; a success is returned at once, the number of
\* calls being the number of 429s plus one; an error that is not a 429
\* JIRAError is raised at once, with no sleep after it (after a single
\* call and no sleep at all when it is the first answer); a 429 on the 4th
\* call is raised with no further sleep.
C16_SearchWithRetry ==
    LET calls == search.calls
        finished == search.outcome \in {"returned", "raised"}
        retried == IF finished THEN calls - 1 ELSE calls
    IN  /\ calls <= 4
        /\ Len(search.answers) = calls
        /\ search.outcome = "running" => calls < 4
        /\ \A i \in 1..retried : search.answers[i] = RateLimited
        /\ search.sleeps = SubSeq(Backoff, 1, retried)
        /\ search.attempt = retried
        /\ search.outcome = "returned" =>
              /\ IsNone(search.answers[calls].exc)
              /\ search.n = search.answers[calls].n
              /\ calls = Count(search.answers, RateLimited) + 1
        /\ search.outcome = "raised" =>
              /\ search.exc = search.answers[calls].exc
              /\ ~IsNone(search.exc)
              /\ IsRateLimit(Val(search.exc)) =>
                    calls = 4 /\ search.sleeps = <<1, 2, 4>>
              /\ (~IsRateLimit(Val(search.exc)) /\ calls = 1) =>
                    search.sleeps = <<>>

\* Four calls were all answered 429: the last was raised after the sleeps
\* of 1, 2 and 4 seconds.
C16_Witness ==
    /\ search.outcome = "raised"
    /\ IsRateLimit(Val(search.exc))
    /\ search.calls = 4
    /\ search.sleeps = <<1, 2, 4>>

\* --------------------------------------------- the fetch, read as a whole

\* C15: fetch_epic returns None when the client is not connected or the
\* Epic key does not resolve, and raises only for errors that cannot be
\* recovered from: a rate limit (HTTP 429), on the Epic lookup or on a page
\* of children, is retried with backoff and is never what fetch_epic
\* raises.
C15_RateLimitNeverRaised ==
    /\ (fpc = "returned" /\ search.outcome = "none") => IsNone(fetch_result)
    /\ (fpc = "returned" /\ ~IsNone(fetch_result)) =>
          search.outcome = "returned"
    /\ fpc = "returned" => IsNone(fetch_exc)
    /\ fpc = "raised" =>
          /\ ~IsNone(fetch_exc)
          /\ ~IsRateLimit(Val(fetch_exc))

\* ======================================================================
\* Part 4: the timestamps of a raw issue
\* ======================================================================

\* The timestamp texts a Jira field can hold.
Texts ==
    { "2024-01-15T10:30:00.000+0000", "2024-01-15T18:30:00.000+0800",
      "2024-01-16T09:00:00.000-0500", "not-a-date", "",
      "2024-13-45T10:30:00.000+0000", "99999999999999999999" }

\* A raw field: absent (None) or a text.
RawValues == {None} \cup {Some(t) : t \in Texts}

\* dateutil.parser.parse(text): the datetime the text denotes, or the
\* exception raised: ParserError (a ValueError) for a text that is no
\* date, OverflowError for a number too large for a date field.
dt_parse(text) ==
    CASE text = "2024-01-15T10:30:00.000+0000" ->
            [exc |-> None, dt |-> Some([t |-> 1705314600, off |-> 0])]
      [] text = "2024-01-15T18:30:00.000+0800" ->
            [exc |-> None, dt |-> Some([t |-> 1705314600, off |-> 8 * 3600])]
      [] text = "2024-01-16T09:00:00.000-0500" ->
            [exc |-> None, dt |-> Some([t |-> 1705413600, off |-> -5 * 3600])]
      [] text = "99999999999999999999" ->
            [exc |-> Some("OverflowError"), dt |-> None]
      [] OTHER ->
            [exc |-> Some("ValueError"), dt |-> None]

\* JiraClient._parse_dt(value): None for None; else the parsed datetime,
\* None when the parser raised ValueError or TypeError, and the parser's
\* exception when it raised something else.
_parse_dt(value) ==
    IF IsNone(value) THEN [exc |-> None, dt |-> None]
    ELSE LET r == dt_parse(Val(value))
         IN  IF IsNone(r.exc) THEN r
             ELSE IF Val(r.exc) \in {"ValueError", "TypeError"}
                  THEN [exc |-> None, dt |-> None]
                  ELSE [exc |-> r.exc, dt |-> None]

InitParse ==
    /\ children = <<>>
    /\ m = EpicMetrics
    /\ pc = "idle"
    /\ clock = UtcClock
    /\ ReportIdle
    /\ JiraIdle
    /\ ParseIdle
    /\ ConfigIdle
    /\ AuthIdle
    /\ ExtIdle

\* The next raw issue of a page of results.
ReceiveIssue ==
    /\ ppc \in {"idle", "done", "raised"}
    /\ \E c \in RawValues, r \in RawValues :
          raw_fields' = [created |-> c, resolutiondate |-> r]
    /\ parsed' = [created |-> None, resolved |-> None]
    /\ ppc' = "created"
    /\ parse_exc' = None
    /\ UNCHANGED <<metricsVars, clock, reportVars, jiraVars, configVars,
                   authVars, extVars>>

\* created=self._parse_dt(getattr(fields, "created", None))
ParseCreated ==
    /\ ppc = "created"
    /\ LET r == _parse_dt(raw_fields.created)
       IN  /\ parsed' = [parsed EXCEPT !.created = r.dt]
           /\ parse_exc' = r.exc
           /\ ppc' = IF IsNone(r.exc) THEN "resolved" ELSE "raised"
    /\ UNCHANGED <<raw_fields, metricsVars, clock, reportVars, jiraVars, configVars,
                   authVars, extVars>>

\* resolved=self._parse_dt(getattr(fields, "resolutiondate", None))
ParseResolved ==
    /\ ppc = "resolved"
    /\ LET r == _parse_dt(raw_fields.resolutiondate)
       IN  /\ parsed' = [parsed EXCEPT !.resolved = r.dt]
           /\ parse_exc' = r.exc
           /\ ppc' = IF IsNone(r.exc) THEN "done" ELSE "raised"
    /\ UNCHANGED <<raw_fields, metricsVars, clock, reportVars, jiraVars, configVars,
                   authVars, extVars>>

NextParse == ReceiveIssue \/ ParseCreated \/ ParseResolved

SpecParse == InitParse /\ [][NextParse]_vars

\* The texts that denote a date and time.
Parseable ==
    { "2024-01-15T10:30:00.000+0000", "2024-01-15T18:30:00.000+0800",
      "2024-01-16T09:00:00.000-0500" }

\* C17: _parse_dt never raises: None gives None, a parseable text gives
\* its datetime, and every other value gives None, whatever exception the
\* parser signals for it.
C17_ParseNeverRaises ==
    /\ ppc # "raised"
    /\ IsNone(parse_exc)
    /\ ppc \in {"resolved", "done"} =>
          /\ IsNone(raw_fields.created) => IsNone(parsed.created)
          /\ (~IsNone(raw_fields.created)
                /\ Val(raw_fields.created) \in Parseable) =>
                ~IsNone(parsed.created)
          /\ (~IsNone(raw_fields.created)
                /\ Val(raw_fields.created) \notin Parseable) =>
                IsNone(parsed.created)

\* ======================================================================
\* Part 5: the configuration store
\* ======================================================================

\* dict(a) updated with b: the keys of both, b's value where b has one.
Overlay(a, b) ==
    [k \in DOMAIN a \cup DOMAIN b |-> IF k \in DOMAIN b THEN b[k] ELSE a[k]]

\* ConfigManager.get(key, default)
get(data, key, default) == IF key \in DOMAIN data THEN data[key] ELSE default

\* ConfigManager.set / update: self._data.update(values); set(key, value)
\* is the update with the one key.
update(data, values) == Overlay(data, values)

\* Variant of reset: the defaults are written over the current dict.
reset_OverCurrent(data) == Overlay(data, _DEFAULTS)

\* ConfigManager.reset: self._data = dict(_DEFAULTS)
reset(data) == _DEFAULTS

\* ConfigManager._save: the dict is written as JSON; an OSError is logged
\* and swallowed.  The directory or the file cannot be written: the file
\* is as before.  The write fails after the file was opened for writing:
\* the file is cut short.  The values the program stores are strings,
\* integers and lists of strings, which JSON gives back unchanged.
_save(data, file, outcome) ==
    CASE outcome = "ok" -> [state |-> "json", content |-> data]
      [] outcome = "unwritable" -> file
      [] OTHER -> [state |-> "corrupt", content |-> _DEFAULTS]

SaveOutcomes == {"ok", "unwritable", "cut"}

\* ConfigManager.__init__ with _load: the defaults, updated with the dict
\* of the file when the file exists and holds JSON.
_load(file) ==
    IF file.state = "json" THEN Overlay(_DEFAULTS, file.content) ELSE _DEFAULTS

\* The single values the program sets, and one key that is no default.
SetArgs ==
    { [theme |-> "dark"], [theme |-> "light"], [callback_port |-> 8080],
      [last_epic_keys |-> <<"E-1">>], [window |-> "large"] }

\* The dicts the program updates with.
UpdateArgs ==
    { [jira_url |-> "https://x.atlassian.net", jira_email |-> "a@b.com"],
      [theme |-> "dark", callback_port |-> 8080] }

InitConfig ==
    /\ children = <<>>
    /\ m = EpicMetrics
    /\ pc = "idle"
    /\ clock = UtcClock
    /\ ReportIdle
    /\ JiraIdle
    /\ ParseIdle
    /\ ConfigIdle
    /\ AuthIdle
    /\ ExtIdle

\* config.set(key, value)
Set ==
    /\ \E values \in SetArgs, outcome \in SaveOutcomes :
          /\ config_data' = update(config_data, values)
          /\ config_file' = _save(config_data', config_file, outcome)
          /\ config_call' = [op |-> "set", values |-> values, saved |-> outcome]
    /\ UNCHANGED <<metricsVars, clock, reportVars, jiraVars, parseVars, authVars, extVars>>

\* config.update(values)
Update ==
    /\ \E values \in UpdateArgs, outcome \in SaveOutcomes :
          /\ config_data' = update(config_data, values)
          /\ config_file' = _save(config_data', config_file, outcome)
          /\ config_call' = [op |-> "update", values |-> values,
                             saved |-> outcome]
    /\ UNCHANGED <<metricsVars, clock, reportVars, jiraVars, parseVars, authVars, extVars>>

\* config.reset()
Reset ==
    /\ \E outcome \in SaveOutcomes :
          /\ config_data' = reset(config_data)
          /\ config_file' = _save(config_data', config_file, outcome)
          /\ config_call' = [op |-> "reset", values |-> _DEFAULTS,
                             saved |-> outcome]
    /\ UNCHANGED <<metricsVars, clock, reportVars, jiraVars, parseVars, authVars, extVars>>

\* The application is started again: ConfigManager() loads the file.
Restart ==
    /\ config_data' = _load(config_file)
    /\ config_call' = [op |-> "load", values |-> _DEFAULTS, saved |-> "none"]
    /\ UNCHANGED <<config_file, metricsVars, clock, reportVars, jiraVars,
                   parseVars, authVars, extVars>>

NextConfig == Set \/ Update \/ Reset \/ Restart

SpecConfig == InitConfig /\ [][NextConfig]_vars

\* --------------------------------------------- the store, read as a whole

\* The keys asked for: the default keys, a key that was written without
\* being a default, and a key nobody writes.
AskedKeys == DOMAIN _DEFAULTS \cup {"window", "nonexistent"}

Fallback == "fallback"

Mutating == {"set", "update", "reset"}

\* After the call of this step, get returns for every key the value just
\* written for it, else what it returned before; after reset, the default
\* of a default key and the caller's fallback for any other key.
GetFollowsWrites ==
    /\ config_call'.op \in {"set", "update"} =>
          \A k \in AskedKeys :
              get(config_data', k, Fallback) =
                 IF k \in DOMAIN config_call'.values
                 THEN config_call'.values[k]
                 ELSE get(config_data, k, Fallback)
    /\ config_call'.op = "reset" =>
          \A k \in AskedKeys :
              get(config_data', k, Fallback) =
                 IF k \in DOMAIN _DEFAULTS THEN _DEFAULTS[k] ELSE Fallback

\* A fresh manager that loads the file of the next state returns for
\* every key what the manager in memory returns.
FileMirrorsMemory ==
    \A k \in AskedKeys :
        get(_load(config_file'), k, Fallback) = get(config_data', k, Fallback)

\* C18 as stated: after every set, update and reset, get returns the value
\* most recently written since the last reset (the default or the
\* caller's fallback for a key not written), and a fresh manager loading
\* the config file returns the same value for every key: the file mirrors
\* the memory after each mutating call.
C18_FileAlwaysMirrors ==
    [][/\ GetFollowsWrites
       /\ config_call'.op \in Mutating => FileMirrorsMemory]_vars

\* C18, amended: after every set, update and reset, get returns the value
\* most recently written since the last reset (the default or the
\* caller's fallback for a key not written); when the call's write of the
\* config file succeeded, a fresh manager loading the file returns the
\* same value for every key; when the write failed, the file is as it was
\* before the call or is cut short, and a fresh manager then returns what
\* the old file gives or the defaults.
C18_FileMirrorsWhenSaved ==
    [][/\ GetFollowsWrites
       /\ (config_call'.op \in Mutating /\ config_call'.saved = "ok") =>
             FileMirrorsMemory
       /\ (config_call'.op \in Mutating /\ config_call'.saved = "unwritable") =>
             config_file' = config_file
       /\ (config_call'.op \in Mutating /\ config_call'.saved = "cut") =>
             _load(config_file') = _DEFAULTS]_vars

\* After a reset, a key that is no default was set and saved: the file
\* holds it, and a default key written before the reset is at its default.
C18_Witness ==
    /\ config_call = [op |-> "set", values |-> [window |-> "large"],
                      saved |-> "ok"]
    /\ config_file.state = "json"
    /\ get(_load(config_file), "window", Fallback) = "large"
    /\ get(config_data, "theme", Fallback) = "light"
    /\ get(config_data, "callback_port", Fallback) = 8080
    /\ get(config_data, "nonexistent", Fallback) = Fallback

(***************************************************************************)
(* Part 6: the credentials (services/auth_manager.py).                     *)
(***************************************************************************)

\* The latest value of time.time() the model reaches.
MaxTime == 3

\* The manager's state as one record: the cached token and its expiry,
\* the keyring entries and the configuration dict.
AuthOf ==
    [access_token |-> _access_token, token_expiry |-> _token_expiry,
     keyring |-> keyring, config |-> config_data]

\* Python's truth value of the cached token: None and "" are false.
TruthyToken(tok) == ~IsNone(tok) /\ Val(tok) # ""

\* The token endpoint's answers to a refresh: a RequestException, or a new
\* access token with a rotated refresh token and its lifetime.
RefreshResponses ==
    {[ok |-> FALSE, access_token |-> "", refresh_token |-> "", expires_in |-> 0]}
    \cup [ok : {TRUE}, access_token : {"at-2", "at-3"},
          refresh_token : {"rt-2"}, expires_in : {1, 2}]

\* The token endpoint's answers to an authorization code.
Grants ==
    [ok : {TRUE}, access_token : {"at-1"}, refresh_token : {"rt-1", ""},
     expires_in : {1, 2}]

\* AuthManager._store_tokens: the payload written under "tokens".
_store_tokens(a, data) ==
    [a EXCEPT !.keyring.tokens =
        Some([access_token |-> data.access_token,
              refresh_token |-> data.refresh_token,
              expiry |-> data.expiry])]

\* AuthManager._load_tokens: None when the entry is absent.
_load_tokens(a) == a.keyring.tokens

\* The dict of a token response with its expiry: time.time() + expires_in.
TokenData(resp, now) ==
    [access_token |-> resp.access_token, refresh_token |-> resp.refresh_token,
     expiry |-> now + resp.expires_in]

\* AuthManager._refresh_token: on success the new tokens are stored and
\* cached and the new access token returned; on a RequestException the
\* cache is cleared and None returned.
_refresh_token(a, now, resp) ==
    IF resp.ok
    THEN LET data == TokenData(resp, now)
             b == _store_tokens(a, data) IN
         [auth |-> [b EXCEPT !.access_token = Some(data.access_token),
                             !.token_expiry = data.expiry],
          result |-> Some(data.access_token),
          read_keyring |-> TRUE, posted |-> TRUE]
    ELSE [auth |-> [a EXCEPT !.access_token = None, !.token_expiry = 0],
          result |-> None, read_keyring |-> TRUE, posted |-> TRUE]

\* Variant of get_access_token: the cached token is returned whatever its
\* expiry.
get_access_token_StaleCache(a, now, resp) ==
    IF TruthyToken(a.access_token)
    THEN [auth |-> a, result |-> a.access_token,
          read_keyring |-> FALSE, posted |-> FALSE]
    ELSE [auth |-> a, result |-> None, read_keyring |-> TRUE, posted |-> FALSE]

\* AuthManager.get_access_token at time now, the token endpoint answering
\* resp if it is asked.
get_access_token(a, now, resp) ==
    IF TruthyToken(a.access_token) /\ now < a.token_expiry
    THEN [auth |-> a, result |-> a.access_token,
          read_keyring |-> FALSE, posted |-> FALSE]
    ELSE LET stored == _load_tokens(a) IN
         IF IsNone(stored)
         THEN [auth |-> a, result |-> None,
               read_keyring |-> TRUE, posted |-> FALSE]
         ELSE LET access == Val(stored).access_token
                  expiry == Val(stored).expiry
                  refresh == Val(stored).refresh_token IN
              IF access # "" /\ now < expiry
              THEN [auth |-> [a EXCEPT !.access_token = Some(access),
                                       !.token_expiry = expiry],
                    result |-> Some(access),
                    read_keyring |-> TRUE, posted |-> FALSE]
              ELSE IF refresh # ""
              THEN _refresh_token(a, now, resp)
              ELSE [auth |-> a, result |-> None,
                    read_keyring |-> TRUE, posted |-> FALSE]

\* The keys logout asks the keyring to delete, in order.
LogoutKeys == <<"tokens", "api_token">>

\* The config keys logout empties.
LogoutValues ==
    [auth_method |-> "", jira_url |-> "", jira_email |-> "",
     cloud_id |-> "", site_name |-> ""]

\* Variant of logout: the OAuth entry alone is deleted.
logout_TokensOnly(a) ==
    [auth |-> [a EXCEPT !.keyring.tokens = None,
                        !.access_token = None,
                        !.token_expiry = 0,
                        !.config = update(a.config, LogoutValues)],
     deleted |-> <<"tokens">>]

\* AuthManager.logout: both keyring entries are deleted, a
\* PasswordDeleteError for an absent entry being passed over; the cache is
\* cleared and the five config keys are emptied.
logout(a) ==
    [auth |-> [a EXCEPT !.keyring = [tokens |-> None, api_token |-> None],
                        !.access_token = None,
                        !.token_expiry = 0,
                        !.config = update(a.config, LogoutValues)],
     deleted |-> LogoutKeys]

\* AuthManager.login_api_token(url, email, token)
ApiLoginValues ==
    [auth_method |-> "api_token", jira_url |-> "https://acme.atlassian.net",
     jira_email |-> "dev@acme.test", site_name |-> "acme"]

login_api_token(a, token) ==
    [a EXCEPT !.keyring.api_token = Some(token),
              !.config = update(a.config, ApiLoginValues)]

\* AuthManager.is_configured
is_configured(a) ==
    get(a.config, "client_id", "") # "" /\ get(a.config, "client_secret", "") # ""

\* AuthManager._select_site(site)
SiteValues == [cloud_id |-> "cloud-1", site_name |-> "acme"]

\* The outcomes of the config writes the credential calls make.
AuthSaveOutcomes == {"ok", "unwritable"}

\* The calls that leave the state of the manager as it is.
NoChange(op, result) ==
    /\ auth_call' = [op |-> op, result |-> result, read_keyring |-> FALSE,
                     posted |-> FALSE, deleted |-> <<>>]
    /\ UNCHANGED <<_access_token, _token_expiry, keyring, configVars>>

\* The state of the manager after a call.
Becomes(a) ==
    /\ _access_token' = a.access_token
    /\ _token_expiry' = a.token_expiry
    /\ keyring' = a.keyring
    /\ config_data' = a.config

InitAuth ==
    /\ children = <<>>
    /\ m = EpicMetrics
    /\ pc = "idle"
    /\ clock = UtcClock
    /\ ReportIdle
    /\ JiraIdle
    /\ ParseIdle
    /\ ConfigIdle
    /\ AuthIdle
    /\ ExtIdle

\* time.time() advances.
Tick ==
    /\ time < MaxTime
    /\ time' = time + 1
    /\ UNCHANGED <<_access_token, _token_expiry, keyring, auth_call>>
    /\ UNCHANGED <<metricsVars, clock, reportVars, jiraVars, parseVars,
                   configVars, extVars>>

\* LoginPanel._save_oauth_config: the client id and secret are saved.
SaveOauthConfig ==
    /\ \E outcome \in AuthSaveOutcomes :
          LET values == [client_id |-> "cid", client_secret |-> "csec"] IN
          /\ config_data' = update(config_data, values)
          /\ config_file' = _save(config_data', config_file, outcome)
          /\ config_call' = [op |-> "update", values |-> values,
                             saved |-> outcome]
    /\ UNCHANGED authVars
    /\ UNCHANGED <<metricsVars, clock, reportVars, jiraVars, parseVars, extVars>>

\* The manager after _exchange_code, _store_tokens and
\* config.set("auth_method", "oauth").
Exchanged(a, grant, now) ==
    LET data == TokenData(grant, now)
        b == _store_tokens([a EXCEPT !.access_token = Some(data.access_token),
                                     !.token_expiry = data.expiry],
                           data) IN
    [b EXCEPT !.config = update(b.config, [auth_method |-> "oauth"])]

\* AuthManager.start_login: nothing is done without the client id and
\* secret, without an authorization code or without an answer to it;
\* _exchange_code caches the token it obtains, the tokens are stored,
\* auth_method is set, and the single accessible site is selected.
StartLogin ==
    /\ \/ /\ ~is_configured(AuthOf)
          /\ NoChange("start_login", None)
       \/ /\ is_configured(AuthOf)
          /\ \E how \in {"no_callback", "exchange_failed"} :
                NoChange("start_login", None)
       \/ /\ is_configured(AuthOf)
          /\ \E how \in {"no_sites", "many_sites"}, grant \in Grants,
                o1 \in AuthSaveOutcomes :
                LET c == Exchanged(AuthOf, grant, time) IN
                /\ Becomes(c)
                /\ config_file' = _save(c.config, config_file, o1)
                /\ config_call' = [op |-> "set",
                                   values |-> [auth_method |-> "oauth"],
                                   saved |-> o1]
                /\ auth_call' = [op |-> "start_login",
                                 result |-> IF how = "no_sites" THEN None
                                            ELSE Some(how),
                                 read_keyring |-> FALSE, posted |-> TRUE,
                                 deleted |-> <<>>]
       \/ /\ is_configured(AuthOf)
          /\ \E grant \in Grants, o1, o2 \in AuthSaveOutcomes :
                LET c == Exchanged(AuthOf, grant, time)
                    d == [c EXCEPT !.config = update(c.config, SiteValues)] IN
                /\ Becomes(d)
                /\ config_file' = _save(d.config,
                                        _save(c.config, config_file, o1), o2)
                /\ config_call' = [op |-> "update", values |-> SiteValues,
                                   saved |-> o2]
                /\ auth_call' = [op |-> "start_login",
                                 result |-> Some("one_site"),
                                 read_keyring |-> FALSE, posted |-> TRUE,
                                 deleted |-> <<>>]
    /\ UNCHANGED time
    /\ UNCHANGED <<metricsVars, clock, reportVars, jiraVars, parseVars, extVars>>

\* AuthManager.login_api_token
LoginApiToken ==
    /\ \E outcome \in AuthSaveOutcomes :
          /\ Becomes(login_api_token(AuthOf, "api-secret"))
          /\ config_file' = _save(config_data', config_file, outcome)
          /\ config_call' = [op |-> "update", values |-> ApiLoginValues,
                             saved |-> outcome]
    /\ auth_call' = [op |-> "login_api_token", result |-> None,
                     read_keyring |-> FALSE, posted |-> FALSE,
                     deleted |-> <<>>]
    /\ UNCHANGED time
    /\ UNCHANGED <<metricsVars, clock, reportVars, jiraVars, parseVars, extVars>>

\* AuthManager.get_access_token
GetAccessToken ==
    /\ \E resp \in RefreshResponses :
          LET out == get_access_token(AuthOf, time, resp) IN
          /\ Becomes(out.auth)
          /\ auth_call' = [op |-> "get_access_token", result |-> out.result,
                           read_keyring |-> out.read_keyring,
                           posted |-> out.posted, deleted |-> <<>>]
    /\ UNCHANGED <<time, config_file, config_call>>
    /\ UNCHANGED <<metricsVars, clock, reportVars, jiraVars, parseVars, extVars>>

\* AuthManager.logout
Logout ==
    /\ \E outcome \in AuthSaveOutcomes :
          LET out == logout(AuthOf) IN
          /\ Becomes(out.auth)
          /\ config_file' = _save(config_data', config_file, outcome)
          /\ config_call' = [op |-> "update", values |-> LogoutValues,
                             saved |-> outcome]
          /\ auth_call' = [op |-> "logout", result |-> None,
                           read_keyring |-> FALSE, posted |-> FALSE,
                           deleted |-> out.deleted]
    /\ UNCHANGED time
    /\ UNCHANGED <<metricsVars, clock, reportVars, jiraVars, parseVars, extVars>>

NextAuth ==
    \/ Tick
    \/ SaveOauthConfig
    \/ StartLogin
    \/ LoginApiToken
    \/ GetAccessToken
    \/ Logout

SpecAuth == InitAuth /\ [][NextAuth]_vars

(***************************************************************************)
(* Claims on the credentials.  get_access_token and logout are applied to  *)
(* the manager of every reachable state, at the time of that state and for *)
(* every answer of the token endpoint.                                     *)
(***************************************************************************)

\* The cached token is set and the time is before its cached expiry.
CacheValid(a, now) == TruthyToken(a.access_token) /\ now < a.token_expiry

\* The keyring holds an access token whose stored expiry is in the future.
StoredValid(a, now) ==
    /\ ~IsNone(a.keyring.tokens)
    /\ Val(a.keyring.tokens).access_token # ""
    /\ now < Val(a.keyring.tokens).expiry

\* The keyring holds a refresh token.
CanRefresh(a) ==
    ~IsNone(a.keyring.tokens) /\ Val(a.keyring.tokens).refresh_token # ""

LoggedOut(a) == a.access_token = None /\ a.keyring.tokens = None

\* The config keys logout empties.
LogoutConfigKeys ==
    {"auth_method", "jira_url", "jira_email", "cloud_id", "site_name"}

\* C20: after logout, from any state, the cached access token is None and
\* its expiry is 0, the deletion of both keyring entries, "tokens" and
\* "api_token", has been requested, also when an entry is absent, the
\* config keys auth_method, jira_url, jira_email, cloud_id and site_name
\* are empty strings and every other config key is as before; and while no
\* login has stored tokens (no token is cached and none is stored, which
\* get_access_token, login_api_token and logout leave so), get_access_token
\* returns None at every time and for every answer of the token endpoint.
C20_LogoutClears ==
    LET a == AuthOf
        out == logout(a)
        b == out.auth IN
    /\ b.access_token = None
    /\ b.token_expiry = 0
    /\ out.deleted = <<"tokens", "api_token">>
    /\ b.keyring = [tokens |-> None, api_token |-> None]
    /\ DOMAIN b.config = DOMAIN a.config
    /\ \A k \in LogoutConfigKeys : b.config[k] = ""
    /\ \A k \in DOMAIN a.config \ LogoutConfigKeys : b.config[k] = a.config[k]
    /\ LoggedOut(b)
    /\ auth_call.op = "logout" => /\ LoggedOut(a)
                                  /\ _token_expiry = 0
                                  /\ auth_call.deleted = <<"tokens", "api_token">>
                                  /\ keyring.api_token = None
                                  /\ \A k \in LogoutConfigKeys : config_data[k] = ""
    /\ LoggedOut(a) =>
          /\ \A now \in 0..MaxTime, resp \in RefreshResponses :
                LET got == get_access_token(a, now, resp) IN
                /\ got.result = None
                /\ LoggedOut(got.auth)
          /\ LoggedOut(login_api_token(a, "api-secret"))

\* logout was called with the client configured, after time had passed:
\* the client id is kept, the five keys are empty, and the keyring is
\* empty.
C20_Witness ==
    /\ auth_call.op = "logout"
    /\ auth_call.deleted = <<"tokens", "api_token">>
    /\ config_data["client_id"] = "cid"
    /\ config_data["auth_method"] = ""
    /\ config_file.state = "json"
    /\ config_file.content["auth_method"] = "oauth"
    /\ keyring = [tokens |-> None, api_token |-> None]
    /\ time > 0

(***************************************************************************)
(* Part 7: the OAuth callback server (services/oauth_server.py).           *)
(***************************************************************************)

\* OAuthCallbackServer.expected_state: the state sent to the provider.
expected_state == "S"

\* The query parameters a request can carry: each is absent (None), blank
\* (as in "error=") or has a value.
Queries ==
    [error : {None, Some(""), Some("access_denied")},
     error_description : {None, Some("User denied")},
     code : {None, Some(""), Some("AUTH_CODE")},
     state : {None, Some(""), Some("S"), Some("wrong")}]

\* The GET requests the server can receive.
Requests == [path : {"/callback", "/other"}, query : Queries]

\* urllib.parse.parse_qs: blank values are dropped (keep_blank_values is
\* False), so a blank parameter is absent from the dict.
parse_qs(query) ==
    [k \in DOMAIN query |-> IF query[k] = Some("") THEN None ELSE query[k]]

\* Variant of do_GET: the state is not compared with expected_state.
do_GET_NoStateCheck(req) ==
    LET params == parse_qs(req.query) IN
    IF req.path # "/callback"
    THEN [status |-> 404, result |-> None]
    ELSE IF ~IsNone(params.error) /\ Val(params.error) # ""
    THEN [status |-> 400,
          result |-> Some([error |-> Val(params.error),
                           error_description |->
                               IF IsNone(params.error_description)
                               THEN Val(params.error)
                               ELSE Val(params.error_description)])]
    ELSE IF IsNone(params.code) \/ IsNone(params.state)
    THEN [status |-> 400, result |-> Some([error |-> "missing_params"])]
    ELSE [status |-> 200,
          result |-> Some([code |-> Val(params.code),
                           state |-> Val(params.state)])]

\* OAuthCallbackHandler.do_GET: the status of the response and the value
\* left in server.result (None: the result is not assigned).
do_GET(req) ==
    LET params == parse_qs(req.query)
        error == params.error
        code == params.code
        state == params.state
        Falsy(v) == IsNone(v) \/ Val(v) = "" IN
    IF req.path # "/callback"
    THEN [status |-> 404, result |-> None]
    ELSE IF ~Falsy(error)
    THEN [status |-> 400,
          result |-> Some([error |-> Val(error),
                           error_description |->
                               IF IsNone(params.error_description)
                               THEN Val(error)
                               ELSE Val(params.error_description)])]
    ELSE IF Falsy(code) \/ Falsy(state)
    THEN [status |-> 400, result |-> Some([error |-> "missing_params"])]
    ELSE IF Val(state) # expected_state
    THEN [status |-> 400, result |-> Some([error |-> "state_mismatch"])]
    ELSE [status |-> 200,
          result |-> Some([code |-> Val(code), state |-> Val(state)])]

InitOAuth ==
    /\ children = <<>>
    /\ m = EpicMetrics
    /\ pc = "idle"
    /\ clock = UtcClock
    /\ ReportIdle
    /\ JiraIdle
    /\ ParseIdle
    /\ ConfigIdle
    /\ AuthIdle
    /\ ExtIdle

\* wait_for_callback is called: the server is made with result None and
\* the serving thread is started; the caller joins it.
WaitForCallback ==
    /\ wait_pc \in {"idle", "returned"}
    /\ request' = None
    /\ http_status' = 0
    /\ server_result' = None
    /\ serve_pc' = "waiting"
    /\ wait_pc' = "joining"
    /\ elapsed' = FALSE
    /\ wait_return' = None
    /\ UNCHANGED <<metricsVars, clock, reportVars, jiraVars, parseVars,
                   configVars, authVars, bandVars, pageVars,
                   previewVars, sessionVars>>

\* The 300 seconds of server.timeout pass.
TimeoutElapses ==
    /\ wait_pc \in {"joining", "woken", "shutdown"}
    /\ ~elapsed
    /\ elapsed' = TRUE
    /\ UNCHANGED <<request, http_status, server_result, serve_pc, wait_pc,
                   wait_return>>
    /\ UNCHANGED <<metricsVars, clock, reportVars, jiraVars, parseVars,
                   configVars, authVars, bandVars, pageVars,
                   previewVars, sessionVars>>

\* The serving thread: handle_request receives one request, do_GET
\* answers it, and the thread ends.
HandleRequest ==
    /\ serve_pc = "waiting"
    /\ \E req \in Requests :
          LET out == do_GET(req) IN
          /\ request' = Some(req)
          /\ http_status' = out.status
          /\ server_result' = out.result
    /\ serve_pc' = "done"
    /\ UNCHANGED <<wait_pc, elapsed, wait_return>>
    /\ UNCHANGED <<metricsVars, clock, reportVars, jiraVars, parseVars,
                   configVars, authVars, bandVars, pageVars,
                   previewVars, sessionVars>>

\* The serving thread: handle_request has waited server.timeout seconds
\* for a request and gives up; the thread ends.
HandleTimeout ==
    /\ serve_pc = "waiting"
    /\ elapsed
    /\ serve_pc' = "done"
    /\ UNCHANGED <<request, http_status, server_result, wait_pc, elapsed,
                   wait_return>>
    /\ UNCHANGED <<metricsVars, clock, reportVars, jiraVars, parseVars,
                   configVars, authVars, bandVars, pageVars,
                   previewVars, sessionVars>>

\* thread.join(timeout=server.timeout) returns: the thread has ended, or
\* the timeout has passed.
JoinReturns ==
    /\ wait_pc = "joining"
    /\ serve_pc = "done" \/ elapsed
    /\ wait_pc' = "woken"
    /\ UNCHANGED <<request, http_status, server_result, serve_pc, elapsed,
                   wait_return>>
    /\ UNCHANGED <<metricsVars, clock, reportVars, jiraVars, parseVars,
                   configVars, authVars, bandVars, pageVars,
                   previewVars, sessionVars>>

\* After the join: when the thread is alive server.shutdown() is called,
\* which waits for a serve_forever loop to end; the server runs
\* handle_request, never serve_forever, so the call does not return.
\* Otherwise server.result is returned.
AfterJoin ==
    /\ wait_pc = "woken"
    /\ IF serve_pc # "done"
       THEN /\ wait_pc' = "shutdown"
            /\ UNCHANGED wait_return
       ELSE /\ wait_pc' = "returned"
            /\ wait_return' = server_result
    /\ UNCHANGED <<request, http_status, server_result, serve_pc, elapsed>>
    /\ UNCHANGED <<metricsVars, clock, reportVars, jiraVars, parseVars,
                   configVars, authVars, bandVars, pageVars,
                   previewVars, sessionVars>>

NextOAuth ==
    \/ WaitForCallback
    \/ TimeoutElapses
    \/ HandleRequest
    \/ HandleTimeout
    \/ JoinReturns
    \/ AfterJoin

SpecOAuth == InitOAuth /\ [][NextOAuth]_vars

(***************************************************************************)
(* Claims on the OAuth callback server.                                    *)
(***************************************************************************)

\* The serving thread has answered a request.
Answered == serve_pc = "done" /\ ~IsNone(request)

\* The result holds an authorization code.
HasCode(result) == ~IsNone(result) /\ "code" \in DOMAIN Val(result)

\* The result is the error result with this error and holds no code.
IsError(result, error) ==
    /\ ~IsNone(result)
    /\ "error" \in DOMAIN Val(result)
    /\ Val(result).error = error
    /\ "code" \notin DOMAIN Val(result)

\* The parameter has a value that is not blank.
Given(v) == ~IsNone(v) /\ Val(v) # ""

\* What the answers to the requests that record no code are: 400 with the
\* provider's error, with missing_params or with state_mismatch, and 404
\* with no result for another path.
ErrorAnswers(req) ==
    LET q == req.query IN
    /\ req.path # "/callback" => http_status = 404 /\ server_result = None
    /\ (req.path = "/callback" /\ Given(q.error)) =>
          /\ http_status = 400
          /\ IsError(server_result, Val(q.error))
    /\ (req.path = "/callback" /\ ~Given(q.error)
            /\ (~Given(q.code) \/ ~Given(q.state))) =>
          /\ http_status = 400
          /\ IsError(server_result, "missing_params")
    /\ (req.path = "/callback" /\ ~Given(q.error) /\ Given(q.code)
            /\ Given(q.state) /\ q.state # Some(expected_state)) =>
          /\ http_status = 400
          /\ IsError(server_result, "state_mismatch")

\* C21 as stated: a code is recorded, with status 200, only for a request
\* to /callback that has no error parameter, carries code and state, and
\* whose state equals expected_state; a provider error, a missing code or
\* state, or a state mismatch yields 400 and an error result without a
\* code; any other path yields 404 and leaves the result None.
C21_CodeOnlyWithoutErrorParam ==
    Answered =>
        LET req == Val(request)
            q == req.query IN
        /\ HasCode(server_result) =>
              /\ http_status = 200
              /\ req.path = "/callback"
              /\ IsNone(q.error)
              /\ ~IsNone(q.code)
              /\ q.state = Some(expected_state)
        /\ ErrorAnswers(req)

\* C21, amended: a code is recorded, with status 200, exactly for the
\* requests to /callback that have no error parameter or a blank one,
\* carry a code and a state that are not blank, and whose state equals
\* expected_state; the recorded code and state are those of the request.
\* A provider error (an error parameter that is not blank), a missing or
\* blank code or state, or a state mismatch yields 400 and an error result
\* without a code; any other path yields 404 and leaves the result None.
C21_CodeOnlyWithoutError ==
    Answered =>
        LET req == Val(request)
            q == req.query IN
        /\ HasCode(server_result) <=>
              /\ req.path = "/callback"
              /\ ~Given(q.error)
              /\ Given(q.code)
              /\ q.state = Some(expected_state)
        /\ HasCode(server_result) =>
              /\ http_status = 200
              /\ server_result = Some([code |-> Val(q.code),
                                       state |-> expected_state])
        /\ ErrorAnswers(req)

\* A request to /callback with the code and the expected state was
\* answered 200, and wait_for_callback returned the recorded code.
C21_Witness ==
    /\ Answered
    /\ Val(request).path = "/callback"
    /\ Val(request).query.error = None
    /\ http_status = 200
    /\ server_result = Some([code |-> "AUTH_CODE", state |-> "S"])
    /\ wait_pc = "returned"
    /\ wait_return = server_result

\* C22 as stated: wait_for_callback returns the callback's result, and
\* returns None only because the timeout elapsed.
C22_NoneOnlyOnTimeout ==
    wait_pc = "returned" =>
        /\ wait_return = server_result
        /\ IsNone(wait_return) => elapsed

(***************************************************************************)
(* Claims on the daily series (part 1, specification Spec).                *)
(***************************************************************************)

\* C(d): the children whose creation date is on or before day d.
CreatedBy(d) == {i \in CreatedIdx : CalendarDay(CreatedAt(i)) <= d}

\* The members of C(d) that are Done and were resolved at or before
\* 23:59:59 of day d on the host's clock.
DoneBy(d) ==
    {i \in CreatedBy(d) :
        /\ i \in DoneIdx
        /\ i \in ResolvedIdx
        /\ ResolvedAt(i).t + clock.tz < (d + 1) * SecondsPerDay}

\* C23: for each day d of dates, with C(d) the children created on or
\* before d: total_sp_over_time is the sum of the story points of C(d), a
\* missing estimate counting 0; completed_sp_over_time is that sum over
\* the members of C(d) that are Done and resolved by 23:59:59 of d;
\* cumulative_issues is the size of C(d); cumulative_unestimated is the
\* number of members of C(d) with no or 0 story points.  A child without
\* a creation timestamp is in no C(d).
C23_SeriesValues ==
    Computed =>
        \A k \in 1..Len(m.dates) :
            LET d == m.dates[k] IN
            /\ m.total_sp_over_time[k] = PointsOver(CreatedBy(d))
            /\ m.completed_sp_over_time[k] = PointsOver(DoneBy(d))
            /\ m.cumulative_issues[k] = Cardinality(CreatedBy(d))
            /\ m.cumulative_unestimated[k] =
                  Cardinality(CreatedBy(d) \ EstimatedIdx)
            /\ \A i \in Idx \ CreatedIdx : i \notin CreatedBy(d)

\* An Epic with an undated child and a 3-point child created two days ago
\* and resolved yesterday: the completed points are 0 on the first day and
\* 3 from yesterday on, and one issue is counted on each day.
C23_Witness ==
    /\ Computed
    /\ Len(children) = 2
    /\ \E i \in Idx : children[i].created = None
    /\ m.completed_sp_over_time = <<0, 3, 3>>
    /\ m.total_sp_over_time = <<3, 3, 3>>
    /\ m.cumulative_issues = <<1, 1, 1>>

(***************************************************************************)
(* Part 8: the weekend bands (core/chart_generator.py).                    *)
(***************************************************************************)

\* The longest list of dates drawn.
MaxDates == 9

\* date.weekday() of a day number (day 0 is a Thursday): 0 is Monday,
\* 5 Saturday, 6 Sunday.
weekday(d) == (d + 3) % 7

\* The ascending lists of consecutive dates, from every day of a week.
DateLists ==
    { [i \in 1..n |-> first + i - 1] : first \in 0..6, n \in 0..MaxDates }

InitBands ==
    /\ children = <<>>
    /\ m = EpicMetrics
    /\ pc = "idle"
    /\ clock = UtcClock
    /\ ReportIdle
    /\ JiraIdle
    /\ ParseIdle
    /\ ConfigIdle
    /\ AuthIdle
    /\ ExtIdle

\* _draw_weekend_bands(ax, dates, color) is called: nothing is drawn for
\* an empty list.
DrawWeekendBands ==
    /\ band_pc \in {"idle", "done"}
    /\ \E dates \in DateLists :
          /\ band_dates' = dates
          /\ band_pc' = IF dates = <<>> THEN "done" ELSE "loop"
    /\ band_i' = 0
    /\ in_weekend' = FALSE
    /\ band_start' = None
    /\ bands' = <<>>
    /\ UNCHANGED <<metricsVars, clock, reportVars, jiraVars, parseVars,
                   configVars, authVars, oauthVars, pageVars,
                   previewVars, sessionVars>>

\* Variant of the loop body: the band ends at the last weekend date.
BandLoopBody_EndOnSunday(d) ==
    IF weekday(d) >= 5
    THEN /\ IF ~in_weekend
            THEN band_start' = Some(d) /\ in_weekend' = TRUE
            ELSE UNCHANGED <<band_start, in_weekend>>
         /\ UNCHANGED bands
    ELSE /\ IF in_weekend /\ ~IsNone(band_start)
            THEN bands' = Append(bands, <<Val(band_start), d - 1>>)
                 /\ in_weekend' = FALSE
            ELSE UNCHANGED <<bands, in_weekend>>
         /\ UNCHANGED band_start

\* The body of "for d in dates".
BandLoopBody(d) ==
    IF weekday(d) >= 5
    THEN /\ IF ~in_weekend
            THEN band_start' = Some(d) /\ in_weekend' = TRUE
            ELSE UNCHANGED <<band_start, in_weekend>>
         /\ UNCHANGED bands
    ELSE /\ IF in_weekend /\ ~IsNone(band_start)
            THEN bands' = Append(bands, <<Val(band_start), d>>)
                 /\ in_weekend' = FALSE
            ELSE UNCHANGED <<bands, in_weekend>>
         /\ UNCHANGED band_start

\* One date of the loop.
BandLoop ==
    /\ band_pc = "loop"
    /\ band_i < Len(band_dates)
    /\ band_i' = band_i + 1
    /\ BandLoopBody(band_dates[band_i + 1])
    /\ UNCHANGED <<band_dates, band_pc>>
    /\ UNCHANGED <<metricsVars, clock, reportVars, jiraVars, parseVars,
                   configVars, authVars, oauthVars, pageVars,
                   previewVars, sessionVars>>

\* After the loop: a trailing weekend is closed at the last date.
BandClose ==
    /\ band_pc = "loop"
    /\ band_i = Len(band_dates)
    /\ bands' = IF in_weekend /\ ~IsNone(band_start)
                THEN Append(bands, <<Val(band_start),
                                     band_dates[Len(band_dates)]>>)
                ELSE bands
    /\ band_pc' = "done"
    /\ UNCHANGED <<band_dates, band_i, in_weekend, band_start>>
    /\ UNCHANGED <<metricsVars, clock, reportVars, jiraVars, parseVars,
                   configVars, authVars, oauthVars, pageVars,
                   previewVars, sessionVars>>

NextBands == DrawWeekendBands \/ BandLoop \/ BandClose

SpecBands == InitBands /\ [][NextBands]_vars

\* ------------------------------------------------------------------ C24

\* The positions of the list that hold a Saturday or a Sunday.
WeekendAt == {i \in DOMAIN band_dates : weekday(band_dates[i]) >= 5}

\* The maximal runs of weekend dates, as <<first position, last position>>.
WeekendRuns ==
    {r \in WeekendAt \X WeekendAt :
        /\ r[1] <= r[2]
        /\ \A i \in r[1]..r[2] : i \in WeekendAt
        /\ (r[1] - 1) \notin WeekendAt
        /\ (r[2] + 1) \notin WeekendAt}

\* The band of a run: from its first date to the first weekday after it,
\* or to the last date of the list when the list ends in the run.
BandOf(r) ==
    <<band_dates[r[1]],
      IF r[2] < Len(band_dates) THEN band_dates[r[2] + 1]
      ELSE band_dates[Len(band_dates)]>>

\* C24: for an ascending list of consecutive dates, exactly one band is
\* drawn per maximal run of Saturday and Sunday dates, in the order of the
\* runs: it starts at the first weekend date of the run and ends at the
\* first weekday date after it, or at the last date of the list when the
\* list ends inside the weekend.  Every Saturday and Sunday of the list
\* lies within a band (its ends included) and no band starts on a weekday.
C24_WeekendBands ==
    band_pc = "done" =>
        /\ Len(bands) = Cardinality(WeekendRuns)
        /\ \A r \in WeekendRuns : \E k \in DOMAIN bands : bands[k] = BandOf(r)
        /\ \A k \in DOMAIN bands : \E r \in WeekendRuns : bands[k] = BandOf(r)
        /\ \A k \in 1..(Len(bands) - 1) : bands[k][2] < bands[k + 1][1]
        /\ \A i \in WeekendAt :
              \E k \in DOMAIN bands :
                  bands[k][1] <= band_dates[i] /\ band_dates[i] <= bands[k][2]
        /\ \A k \in DOMAIN bands : weekday(bands[k][1]) >= 5

\* A list from a Sunday to the Saturday of the next week: the band of the
\* first Sunday ends on the Monday, the band of the last Saturday is closed
\* at the last date.
C24_Witness ==
    /\ band_pc = "done"
    /\ Len(band_dates) = 7
    /\ weekday(band_dates[1]) = 6
    /\ bands = <<<<band_dates[1], band_dates[2]>>,
                 <<band_dates[7], band_dates[7]>>>>

(***************************************************************************)
(* Part 9: the pages of children (core/jira_client.py).                    *)
(***************************************************************************)

\* The most child issues a source holds.
MaxIssues == 210

\* The child issues of the source, in its order (created ascending): the
\* issues are numbered 1..n.
SourceIssues(n) == [i \in 1..n |-> i]

Min(a, b) == IF a < b THEN a ELSE b

\* search_issues(jql, startAt=start_at, maxResults=max_results) on a
\* source of n issues: the issues after the first start_at, at most
\* max_results of them.
Page(n, start_at, max_results) ==
    SubSeq(SourceIssues(n), start_at + 1, Min(start_at + max_results, n))

InitPages ==
    /\ children = <<>>
    /\ m = EpicMetrics
    /\ pc = "idle"
    /\ clock = UtcClock
    /\ ReportIdle
    /\ JiraIdle
    /\ ParseIdle
    /\ ConfigIdle
    /\ AuthIdle
    /\ ExtIdle

\* _fetch_children is called for an Epic whose source holds n children.
FetchChildren ==
    /\ fc_pc \in {"idle", "returned", "raised"}
    /\ \E n \in 0..MaxIssues : source_n' = n
    /\ fc_start' = 0
    /\ fc_children' = <<>>
    /\ fc_offsets' = <<>>
    /\ fc_pc' = "loop"
    /\ UNCHANGED <<metricsVars, clock, reportVars, jiraVars, parseVars,
                   configVars, authVars, oauthVars, bandVars,
                   previewVars, sessionVars>>

\* Variant of the loop's end test: a full page ends the loop as well.
LastPage_AlsoFull(results) == results = <<>> \/ Len(results) <= _MAX_RESULTS

\* The loop ends after this page: "if not results: break" and
\* "if len(results) < _MAX_RESULTS: break".
LastPage(results) == results = <<>> \/ Len(results) < _MAX_RESULTS

\* One pass of "while True": the page at start is requested; an exception
\* of _search_with_retry leaves _fetch_children; else the page is
\* appended, and the loop ends or start moves on by _MAX_RESULTS.
PageRequest ==
    /\ fc_pc = "loop"
    /\ fc_offsets' = Append(fc_offsets, fc_start)
    /\ \E raised \in BOOLEAN :
          IF raised
          THEN /\ fc_pc' = "raised"
               /\ UNCHANGED <<fc_children, fc_start>>
          ELSE LET results == Page(source_n, fc_start, _MAX_RESULTS) IN
               /\ fc_children' = fc_children \o results
               /\ IF LastPage(results)
                  THEN fc_pc' = "returned" /\ UNCHANGED fc_start
                  ELSE fc_pc' = "loop" /\ fc_start' = fc_start + _MAX_RESULTS
    /\ UNCHANGED source_n
    /\ UNCHANGED <<metricsVars, clock, reportVars, jiraVars, parseVars,
                   configVars, authVars, oauthVars, bandVars,
                   previewVars, sessionVars>>

NextPages == FetchChildren \/ PageRequest

SpecPages == InitPages /\ [][NextPages]_vars

\* ------------------------------------------------------------------ C25

\* C25: the pages are requested at the offsets 0, 100, 200, ...; the loop
\* stops at the first page that is empty or has fewer than 100 results,
\* so every page before the last request was full; the children returned
\* are the issues of the source in its order, none skipped and none twice;
\* and for a source of N children the loop ends after floor(N/100) + 1
\* page requests.
C25_Pagination ==
    /\ \A k \in DOMAIN fc_offsets : fc_offsets[k] = 100 * (k - 1)
    /\ fc_pc = "loop" => /\ Len(fc_children) = 100 * Len(fc_offsets)
                         /\ fc_start = 100 * Len(fc_offsets)
    /\ \A k \in DOMAIN fc_children : fc_children[k] = k
    /\ fc_pc = "returned" =>
          /\ fc_children = SourceIssues(source_n)
          /\ Len(fc_offsets) = (source_n \div 100) + 1
          /\ \A k \in 1..(Len(fc_offsets) - 1) :
                Len(Page(source_n, fc_offsets[k], 100)) = 100
          /\ Len(Page(source_n, fc_offsets[Len(fc_offsets)], 100)) < 100

\* A source of exactly 200 children: two full pages and an empty third.
C25_Witness ==
    /\ fc_pc = "returned"
    /\ source_n = 200
    /\ fc_offsets = <<0, 100, 200>>
    /\ Len(fc_children) = 200
    /\ fc_children[101] = 101

(***************************************************************************)
(* Claims on the sidebar of an Epic page (part 2, SpecReport).             *)
(***************************************************************************)

\* C26 as stated: in the sidebar of every Epic page, each optional metric
\* (average cycle time, velocity, scope change, forecast date) shows
\* "N/A" exactly when the metric is None; a metric that has a value, an
\* average cycle time of 0 days and a scope change of 0% included, shows
\* that value.
C26_NotAvailableIffNone ==
    \A i \in 1..Len(report.epics) :
        LET metrics == report.metrics[i]
            box == generate_pdf(report)[2 + i].sidebar IN
        /\ IsNone(box.avg_cycle_time) <=> IsNone(metrics.avg_cycle_time_days)
        /\ IsNone(box.velocity) <=> IsNone(metrics.velocity_sp_per_week)
        /\ IsNone(box.scope_change) <=> IsNone(metrics.scope_change_pct)
        /\ IsNone(box.forecast) <=> IsNone(metrics.forecast_date)
        /\ ~IsNone(metrics.avg_cycle_time_days) =>
              box.avg_cycle_time = Some(Tenths(Val(metrics.avg_cycle_time_days)))
        /\ ~IsNone(metrics.scope_change_pct) =>
              box.scope_change = Some(Units(Val(metrics.scope_change_pct)))

(***************************************************************************)
(* Part 10: the preview panel over several runs (ui/preview_panel.py).     *)
(***************************************************************************)

\* The most runs started.
MaxRuns == 3

InitPreview ==
    /\ children = <<>>
    /\ m = EpicMetrics
    /\ pc = "idle"
    /\ clock = UtcClock
    /\ ReportIdle
    /\ JiraIdle
    /\ ParseIdle
    /\ ConfigIdle
    /\ AuthIdle
    /\ ExtIdle

\* The thread of the run has not quit: its worker is in run(), has left it
\* by an exception, or its finished signal is not handled yet.
ThreadAlive(r) == r.st \in {"running", "crashed", "emitted"}

UnchangedOthers ==
    UNCHANGED <<metricsVars, clock, reportVars, jiraVars, parseVars,
                configVars, authVars, oauthVars, bandVars, pageVars,
                sessionVars>>

\* PreviewPanel.generate(config), from the Generate button or Ctrl+G,
\* neither of which is disabled during a run: without a connection a
\* warning and nothing else; else Export is disabled, the progress bar
\* shown, the preview cleared, and a new thread and worker replace
\* self._thread and self._worker.  _pdf_bytes is not assigned.  When the
\* thread replaced is still alive its QThread object loses its last
\* reference: it is destroyed while running, which ends the process, or it
\* outlives the reference and both runs go on.
PvGenerate ==
    /\ app = "running"
    /\ Len(runs) < MaxRuns
    /\ \E connected \in BOOLEAN :
          IF ~connected
          THEN UNCHANGED previewVars
          ELSE /\ runs' = Append(runs, [st |-> "running", epics |-> FALSE])
               /\ _worker' = Some(Len(runs) + 1)
               /\ pv_export' = FALSE
               /\ pv_progress' = TRUE
               /\ pv_preview' = None
               /\ \E outcome \in {"running", "aborted"} :
                     /\ outcome = "aborted" =>
                           \E k \in DOMAIN runs : ThreadAlive(runs[k])
                     /\ app' = outcome
               /\ UNCHANGED <<pv_queue, pv_pdf, pv_status, pv_result,
                              pv_written>>
    /\ UnchangedOthers

\* _GenerateWorker.run emits progress for a key; _on_progress sets the
\* status text.
PvProgress ==
    /\ app = "running"
    /\ \E k \in DOMAIN runs :
          /\ runs[k].st = "running"
          /\ pv_status' = [text |-> "Fetching", run |-> k]
    /\ UNCHANGED <<app, runs, pv_queue, _worker, pv_pdf, pv_export,
                   pv_progress, pv_result, pv_preview, pv_written>>
    /\ UnchangedOthers

\* fetch_epic or calculate_metrics raises: run() has no handler, the
\* exception leaves it, and finished is not emitted.
PvWorkerRaise ==
    /\ app = "running"
    /\ \E k \in DOMAIN runs :
          /\ runs[k].st = "running"
          /\ runs' = [runs EXCEPT ![k].st = "crashed"]
    /\ UNCHANGED <<app, pv_queue, _worker, pv_pdf, pv_export, pv_progress,
                   pv_status, pv_result, pv_preview, pv_written>>
    /\ UnchangedOthers

\* The end of _GenerateWorker.run: finished.emit(report), with or without
\* an Epic in the report; the signal is queued to the main loop.
PvWorkerEmit ==
    /\ app = "running"
    /\ \E k \in DOMAIN runs, epics \in BOOLEAN :
          /\ runs[k].st = "running"
          /\ runs' = [runs EXCEPT ![k] = [st |-> "emitted", epics |-> epics]]
          /\ pv_queue' = Append(pv_queue, k)
    /\ UNCHANGED <<app, _worker, pv_pdf, pv_export, pv_progress, pv_status,
                   pv_result, pv_preview, pv_written>>
    /\ UnchangedOthers

\* The slots of the finished signal at the head of the queue:
\* _on_generate_finished(report), thread.quit and _cleanup_worker.
PvFinished ==
    /\ app = "running"
    /\ pv_queue # <<>>
    /\ LET k == Head(pv_queue) IN
       /\ pv_queue' = Tail(pv_queue)
       /\ runs' = [runs EXCEPT ![k].st = "handled"]
       /\ pv_result' = k
       /\ pv_progress' = FALSE
       /\ _worker' = None
       /\ IF ~runs[k].epics
          THEN /\ pv_status' = [text |-> "No data to generate a report.",
                                run |-> k]
               /\ UNCHANGED <<pv_pdf, pv_export, pv_preview>>
          ELSE \E raised \in BOOLEAN :
                  IF raised
                  THEN /\ pv_status' = [text |-> "PDF generation failed.",
                                        run |-> k]
                       /\ UNCHANGED <<pv_pdf, pv_export, pv_preview>>
                  ELSE /\ pv_pdf' = Some(k)
                       /\ pv_status' = [text |-> "Report ready", run |-> k]
                       /\ pv_export' = TRUE
                       /\ pv_preview' = Some(k)
    /\ UNCHANGED <<app, pv_written>>
    /\ UnchangedOthers

\* ReportPanel.trigger_export (Ctrl+E) and the Export button:
\* PreviewPanel._export_pdf returns when _pdf_bytes is empty; else the
\* stored PDF is written to the path chosen, if one is chosen.
PvExport ==
    /\ app = "running"
    /\ ~IsNone(pv_pdf)
    /\ \E chosen \in BOOLEAN :
          IF chosen
          THEN /\ pv_written' = Some([pdf |-> Val(pv_pdf),
                                      latest |-> Len(runs)])
               /\ pv_status' = [text |-> "Exported", run |-> Val(pv_pdf)]
          ELSE UNCHANGED <<pv_written, pv_status>>
    /\ UNCHANGED <<app, runs, pv_queue, _worker, pv_pdf, pv_export,
                   pv_progress, pv_result, pv_preview>>
    /\ UnchangedOthers

\* PreviewPanel.resizeEvent and set_dark: the stored PDF, if there is
\* one, is rendered again.
PvResize ==
    /\ app = "running"
    /\ ~IsNone(pv_pdf)
    /\ pv_preview' = pv_pdf
    /\ UNCHANGED <<app, runs, pv_queue, _worker, pv_pdf, pv_export,
                   pv_progress, pv_status, pv_result, pv_written>>
    /\ UnchangedOthers

\* PreviewPanel.clear_preview (the Reset button).
PvClearPreview ==
    /\ app = "running"
    /\ pv_preview' = None
    /\ pv_pdf' = None
    /\ pv_export' = FALSE
    /\ pv_status' = [text |-> "", run |-> 0]
    /\ pv_progress' = FALSE
    /\ UNCHANGED <<app, runs, pv_queue, _worker, pv_result, pv_written>>
    /\ UnchangedOthers

NextPreview ==
    \/ PvGenerate
    \/ PvProgress
    \/ PvWorkerRaise
    \/ PvWorkerEmit
    \/ PvFinished
    \/ PvExport
    \/ PvResize
    \/ PvClearPreview

SpecPreview == InitPreview /\ [][NextPreview]_vars

\* No run is in progress: every run started has left run() and no finished
\* signal awaits the main loop.
NoRunInProgress ==
    \A k \in DOMAIN runs : runs[k].st \in {"handled", "crashed"}

\* C27: every run started by PreviewPanel.generate ends with its finished
\* signal emitted, whatever fetch_epic and calculate_metrics do: once no
\* run is in progress, each run started has emitted finished and had it
\* handled, and the progress bar is hidden.
C27_RunEmitsFinished ==
    (app = "running" /\ NoRunInProgress) =>
        /\ \A k \in DOMAIN runs : runs[k].st = "handled"
        /\ ~pv_progress

\* The texts _on_generate_finished leaves when it stores no PDF.
NoPdfTexts == {"No data to generate a report.", "PDF generation failed."}

\* C28: once generate has started a new run, the PDF of an earlier run is
\* neither exported nor previewed: a file written holds the PDF of the run
\* started last, the preview shows the pages of the run started last, and
\* when the run started last has ended with no Epic or with a rendering
\* failure the stored PDF is empty.
C28_NoEarlierPdf ==
    /\ ~IsNone(pv_written) => Val(pv_written).pdf = Val(pv_written).latest
    /\ ~IsNone(pv_preview) => Val(pv_preview) = Len(runs)
    /\ (/\ pv_result = Len(runs)
        /\ pv_status.run = Len(runs)
        /\ pv_status.text \in NoPdfTexts) => IsNone(pv_pdf)

\* C29: two runs in progress at once do not interfere: the finished signal
\* of an earlier run never replaces the result of a later run, so the
\* result the panel holds is that of the latest run handled.
C29_LatestRunWins ==
    \A k \in DOMAIN runs : runs[k].st = "handled" => pv_result >= k

(***************************************************************************)
(* Part 11: the Jira session across login and logout.                      *)
(***************************************************************************)

InitSession ==
    /\ children = <<>>
    /\ m = EpicMetrics
    /\ pc = "idle"
    /\ clock = UtcClock
    /\ ReportIdle
    /\ JiraIdle
    /\ ParseIdle
    /\ ConfigIdle
    /\ AuthIdle
    /\ ExtIdle

\* JiraClient.connected
connected == ~IsNone(jira_session)

\* The config writes of a handler, the file being writable or not.
SessionSaved(op, values, outcome) ==
    /\ config_file' = _save(config_data', config_file, outcome)
    /\ config_call' = [op |-> op, values |-> values, saved |-> outcome]

SessionOthers ==
    UNCHANGED <<metricsVars, clock, reportVars, jiraVars, parseVars,
                oauthVars, bandVars, pageVars, previewVars>>

\* The outcomes of JiraClient.connect_basic: the instance URL accepts the
\* token; it answers 401 and the cloud API accepts it; or the connection
\* fails (another JIRAError, no cloudId, the cloud API refusing).
BasicOutcomes == {"basic", "scoped", "failed"}

\* LoginPanel._connect_api_token with the three fields filled: the
\* credentials are stored, then connect_basic assigns the new JIRA object
\* to _jira, or None when it fails, and caches a cloudId it had to look
\* up; on success _on_login_success emits login_state_changed(True) and
\* MainWindow._on_login_state sets _logged_in.
ConnectApiToken ==
    /\ \E how \in BasicOutcomes, outcome \in AuthSaveOutcomes :
          LET a == login_api_token(AuthOf, "api-secret")
              lookup == how = "scoped" /\ get(a.config, "cloud_id", "") = ""
              b == IF lookup
                   THEN [a EXCEPT !.config =
                            update(a.config, [cloud_id |-> "cloud-1"])]
                   ELSE a IN
          /\ Becomes(b)
          /\ IF lookup
             THEN SessionSaved("set", [cloud_id |-> "cloud-1"], outcome)
             ELSE SessionSaved("update", ApiLoginValues, outcome)
          /\ jira_session' = CASE how = "basic" -> Some("basic")
                               [] how = "scoped" -> Some("cloud-basic")
                               [] OTHER -> None
          /\ _logged_in' = IF how = "failed" THEN _logged_in ELSE TRUE
    /\ auth_call' = [op |-> "login_api_token", result |-> None,
                     read_keyring |-> FALSE, posted |-> FALSE,
                     deleted |-> <<>>]
    /\ UNCHANGED time
    /\ SessionOthers

\* JiraClient.connect with the manager in state a at time now: without a
\* token or a cloud id False and nothing else; else the new JIRA object is
\* assigned to _jira, or JIRA() raises and _jira is left as it is.
connect(a, now, resp, raises) ==
    LET out == get_access_token(a, now, resp)
        ok == /\ TruthyToken(out.result)
              /\ get(out.auth.config, "cloud_id", "") # ""
              /\ ~raises IN
    [auth |-> out.auth, ok |-> ok,
     session |-> IF ok THEN Some("bearer") ELSE jira_session,
     read_keyring |-> out.read_keyring, posted |-> out.posted]

\* The token endpoint not answering a refresh; connect right after the
\* exchange finds the token just cached and does not ask.
NoRefresh ==
    [ok |-> FALSE, access_token |-> "", refresh_token |-> "", expires_in |-> 0]

\* LoginPanel._start_login, _LoginWorker.run and _on_login_finished:
\* nothing without the client id and secret; AuthManager.start_login
\* gives None (no callback, no answer to the code, no accessible site) or
\* the site or sites; the first site of several is selected; then
\* JiraClient.connect, and on success _on_login_success.
OAuthLogin ==
    /\ \/ /\ ~is_configured(AuthOf)
          /\ UNCHANGED <<authVars, configVars, sessionVars>>
       \/ /\ is_configured(AuthOf)
          /\ \E how \in {"no_callback", "exchange_failed"} :
                /\ NoChange("start_login", None)
                /\ UNCHANGED sessionVars
       \/ /\ is_configured(AuthOf)
          /\ \E grant \in Grants, outcome \in AuthSaveOutcomes :
                LET c == Exchanged(AuthOf, grant, time) IN
                /\ Becomes(c)
                /\ SessionSaved("set", [auth_method |-> "oauth"], outcome)
                /\ auth_call' = [op |-> "start_login", result |-> None,
                                 read_keyring |-> FALSE, posted |-> TRUE,
                                 deleted |-> <<>>]
                /\ UNCHANGED sessionVars
       \/ /\ is_configured(AuthOf)
          /\ \E how \in {"one_site", "many_sites"}, grant \in Grants,
                outcome \in AuthSaveOutcomes, raises \in BOOLEAN :
                LET c == Exchanged(AuthOf, grant, time)
                    d == [c EXCEPT !.config = update(c.config, SiteValues)]
                    out == connect(d, time, NoRefresh, raises) IN
                /\ Becomes(out.auth)
                /\ SessionSaved("update", SiteValues, outcome)
                /\ auth_call' = [op |-> "start_login", result |-> Some(how),
                                 read_keyring |-> out.read_keyring,
                                 posted |-> TRUE, deleted |-> <<>>]
                /\ jira_session' = out.session
                /\ _logged_in' = IF out.ok THEN TRUE ELSE _logged_in
    /\ UNCHANGED time
    /\ SessionOthers

\* SettingsPanel._logout with MainWindow._on_logout, and
\* MainWindow._on_sidebar_logout, both behind the login overlay until a
\* login has succeeded: without the confirmation nothing; with it
\* AuthManager.logout and _logged_in = False.  The JiraClient is not
\* called.
ConfirmLogout ==
    /\ _logged_in
    /\ \E reply \in {"Yes", "No"}, outcome \in AuthSaveOutcomes :
          IF reply = "No"
          THEN UNCHANGED <<authVars, configVars, sessionVars>>
          ELSE LET out == logout(AuthOf) IN
               /\ Becomes(out.auth)
               /\ SessionSaved("update", LogoutValues, outcome)
               /\ auth_call' = [op |-> "logout", result |-> None,
                                read_keyring |-> FALSE, posted |-> FALSE,
                                deleted |-> out.deleted]
               /\ _logged_in' = FALSE
               /\ UNCHANGED <<time, jira_session>>
    /\ SessionOthers

NextSession ==
    \/ SaveOauthConfig
    \/ ConnectApiToken
    \/ OAuthLogin
    \/ ConfirmLogout

SpecSession == InitSession /\ [][NextSession]_vars

\* C30: after a confirmed logout and until a connection attempt succeeds
\* again (the time during which MainWindow._logged_in is False),
\* JiraClient.connected is False.
C30_LogoutDisconnects ==
    ~_logged_in => ~connected

====
